---- MODULE Spec2Model ----
(***************************************************************************)
(* A model of the tfon font library: the packed Bitmap, the Prop model,    *)
(* the bdf / ifnt / ifntx / tfon parsers and the ifnt / tfon writers.      *)
(*                                                                         *)
(* Text is modelled by TLA+ strings, a line (&str) is a string, a char is  *)
(* a string of length 1.  An Option is a sequence of length 0 (None) or 1  *)
(* (Some).  A Vec is a sequence.                                           *)
(***************************************************************************)
EXTENDS Integers, Sequences, FiniteSets, TLC

VARIABLES
    overflow_checks, \* the build: TRUE panics on integer overflow (debug), FALSE wraps (release)
    bitmap,          \* the Bitmap under construction (Bitmap spec)
    rows,            \* history: the rows given to push_row / the bits given to from_bits
    parser,          \* Parser { lines, line }: the input lines, the cursor and the pushback slot
    ret,             \* what the last call of Parser::next returned
    props,           \* the Vec<Prop> a writer is given
    sink,            \* the writer's sink: the text written so far
    result,          \* what write returned
    reparsed,        \* the props parsed back from the text a writer wrote
    given            \* the inputs this behaviour started from

vars == <<overflow_checks, bitmap, rows, parser, ret, props, sink, result, reparsed, given>>

\* ------------------------------------------------------------------ bounds

\* Largest width given to Bitmap::new in the Bitmap specification.
MaxWidth == 3
\* Longest row given to push_row (longer than MaxWidth: excess pixels exist).
MaxRowLen == 4
\* Rows pushed with freely chosen content; later rows repeat one row.
MaxFreeRows == 2
\* Most push_row calls on one Bitmap (past the 255 a u8 height can count).
MaxPushes == 257

\* ------------------------------------------------------- program constants

\* u8::MAX, the largest height / width / spacing value
U8Max == 255
\* u16::MAX, the largest code point
U16Max == 65535

\* -------------------------------------------------------------- Option, text

None == <<>>
Some(x) == <<x>>
IsSome(o) == o # <<>>
Unwrap(o) == o[1]

Min(S) == CHOOSE x \in S : \A y \in S : x <= y

\* The char at (1-based) position i of s, as a string of length 1.
CharAt(s, i) == SubSeq(s, i, i)
\* s with its first n chars dropped.
Drop(s, n) == SubSeq(s, n + 1, Len(s))
Take(s, n) == SubSeq(s, 1, n)

\* str::starts_with
starts_with(s, pre) ==
    Len(pre) <= Len(s) /\ Take(s, Len(pre)) = pre

\* str::strip_prefix
strip_prefix(s, pre) ==
    IF starts_with(s, pre) THEN Some(Drop(s, Len(pre))) ELSE None

\* str::strip_suffix
strip_suffix(s, suf) ==
    IF Len(suf) <= Len(s) /\ Drop(s, Len(s) - Len(suf)) = suf
    THEN Some(Take(s, Len(s) - Len(suf)))
    ELSE None

\* The positions at which delim occurs in s.
Occurrences(s, delim) ==
    { i \in 1..(Len(s) - Len(delim) + 1) : SubSeq(s, i, i + Len(delim) - 1) = delim }

\* str::split_once: the text before and after the first occurrence of delim.
split_once(s, delim) ==
    LET occ == Occurrences(s, delim) IN
    IF occ = {} THEN None
    ELSE LET i == Min(occ) IN
         Some(<<Take(s, i - 1), Drop(s, i + Len(delim) - 1)>>)

\* str::split(' '): the tokens between single spaces (at least one token).
RECURSIVE split(_, _)
split(s, delim) ==
    LET so == split_once(s, delim) IN
    IF so = None THEN <<s>>
    ELSE <<Unwrap(so)[1]>> \o split(Unwrap(so)[2], delim)

\* str::split_ascii_whitespace: the non-empty tokens between runs of spaces.
split_ascii_whitespace(s) ==
    SelectSeq(split(s, " "), LAMBDA t : t # "")

\* str::chars().all(|c| ..): every char of s is one of the chars of allowed.
AllChars(s, allowed) ==
    \A i \in 1..Len(s) : \E k \in 1..Len(allowed) : CharAt(s, i) = CharAt(allowed, k)

Digits == "0123456789"
HexDigits == "0123456789abcdef"

\* The value of a decimal digit char, or -1.
DigitValue(c) ==
    LET occ == Occurrences(Digits, c) IN
    IF Len(c) = 1 /\ occ # {} THEN Min(occ) - 1 ELSE -1

RECURSIVE DigitsValue(_)
DigitsValue(s) ==
    IF s = "" THEN 0
    ELSE 10 * DigitsValue(Take(s, Len(s) - 1)) + DigitValue(CharAt(s, Len(s)))

\* u8::from_str / u16::from_str (max the type's largest value): an optional "+",
\* then one or more decimal digits; Err on anything else and on overflow.
from_str(s, max) ==
    LET body == IF Len(s) > 1 /\ starts_with(s, "+") THEN Drop(s, 1) ELSE s IN
    IF body # "" /\ AllChars(body, Digits)
       /\ DigitsValue(body) <= max
    THEN Some(DigitsValue(body))
    ELSE None

\* Display of an unsigned integer in a radix ("{n}", "{n:x}").
RECURSIVE Radix(_, _, _)
Radix(n, base, digits) ==
    IF n < base THEN CharAt(digits, n + 1)
    ELSE Radix(n \div base, base, digits) \o CharAt(digits, (n % base) + 1)

Decimal(n) == Radix(n, 10, Digits)
LowerHex(n) == Radix(n, 16, HexDigits)

\* The fill of a padded format: the char c, n times (by halves).
RECURSIVE Repeat(_, _)
Repeat(c, n) ==
    IF n <= 0 THEN ""
    ELSE LET half == Repeat(c, n \div 2) IN
         half \o half \o (IF n % 2 = 1 THEN c ELSE "")

\* "{s:w}": a string left-justified, filled with spaces up to w columns.
PadRight(s, w) == s \o Repeat(" ", w - Len(s))
\* "{n}" in the place of "{n:0w}": no fill.
PadZero_unfilled(n, w) == Decimal(n)

\* "{n:0w}": a number right-justified, filled with zeros up to w columns.
PadZero(n, w) == Repeat("0", w - Len(Decimal(n))) \o Decimal(n)

\* ------------------------------------------------------------------ Bitmap

\* 2^n
RECURSIVE Pow2(_)
Pow2(n) == IF n = 0 THEN 1 ELSE 2 * Pow2(n - 1)

\* (byte >> bit) & 1 != 0
BitSet(byte, bit) == (byte \div Pow2(bit)) % 2 = 1
\* byte | (1 << bit)
BitOr(byte, bit) == IF BitSet(byte, bit) THEN byte ELSE byte + Pow2(bit)

\* Bitmap::new
new(width) == [height |-> 0, width |-> width, bmap |-> <<>>]

\* usize::from(height) * usize::from(width)
PixelCount(bm) == bm.height * bm.width

\* Bitmap::from_bits
from_bits(height, width, bmap) ==
    IF Len(bmap) = (height * width + 7) \div 8
    THEN Some([height |-> height, width |-> width, bmap |-> bmap])
    ELSE None

\* row.chain(repeat(false)).take(width)
ChainTake(row, width) ==
    [j \in 1..width |-> IF j <= Len(row) THEN row[j] ELSE FALSE]

\* The loop of push_row: one pixel at bit position pos (0-based).
RECURSIVE PushPixels(_, _, _)
PushPixels(bmap, pos, pixs) ==
    IF pixs = <<>> THEN bmap
    ELSE LET pushed == IF pos % 8 = 0 THEN Append(bmap, 0) ELSE bmap
             off == pos \div 8
             bit == 7 - (pos % 8)
             set == IF Head(pixs)
                    THEN [pushed EXCEPT ![off + 1] = BitOr(@, bit)]
                    ELSE pushed
         IN  PushPixels(set, pos + 1, Tail(pixs))

\* self.height += 1 on a u8: past u8::MAX the debug build panics and the release
\* build wraps to 0.
HeightPlusOne(height, checks) ==
    IF height < U8Max THEN [height |-> height + 1, panic |-> FALSE]
    ELSE IF checks THEN [height |-> height, panic |-> TRUE]
    ELSE [height |-> 0, panic |-> FALSE]

\* Bitmap::push_row: the Bitmap after the call, and whether the call panicked.
push_row(bm, row, checks) ==
    LET pos == PixelCount(bm)
        inc == HeightPlusOne(bm.height, checks)
    IN  [bm |-> [height |-> inc.height,
                 width  |-> bm.width,
                 bmap   |-> PushPixels(bm.bmap, pos, ChainTake(row, bm.width))],
         panic |-> inc.panic]

\* PixIter::next at position pos (0-based): Some(pixel) or None.
PixIter_next(bm, pos) ==
    IF pos < PixelCount(bm)
    THEN Some(BitSet(bm.bmap[(pos \div 8) + 1], 7 - (pos % 8)))
    ELSE None

\* Bitmap::pixels, collected: every pixel the iterator yields, in order.
pixels(bm) ==
    [k \in 1..PixelCount(bm) |-> Unwrap(PixIter_next(bm, k - 1))]

\* -------------------------------------------------------------------- Prop

\* enum Prop: one record shape for every variant (tag, and the text, number or
\* Bitmap the variant carries; the fields a variant does not carry are fixed).
TextProp(tag, text) == [tag |-> tag, str |-> text, num |-> 0, bm |-> new(0)]
NumProp(tag, n) == [tag |-> tag, str |-> "", num |-> n, bm |-> new(0)]
Unknown(text) == TextProp("Unknown", text)
FontName(text) == TextProp("FontName", text)
FontNumber(n) == NumProp("FontNumber", n)
FontHeight(n) == NumProp("FontHeight", n)
FontWidth(n) == NumProp("FontWidth", n)
CharSpacing(n) == NumProp("CharSpacing", n)
LineSpacing(n) == NumProp("LineSpacing", n)
Baseline(n) == NumProp("Baseline", n)
MaxCharNumber(n) == NumProp("MaxCharNumber", n)
CodePoint(n) == NumProp("CodePoint", n)
Bitmap(bm) == [tag |-> "Bitmap", str |-> "", num |-> 0, bm |-> bm]

\* Prop::font_name
font_name(v) == IF v.tag = "FontName" THEN Some(v.str) ELSE None
\* Prop::font_number
font_number(v) == IF v.tag = "FontNumber" THEN Some(v.num) ELSE None
\* Prop::char_spacing
char_spacing(v) == IF v.tag = "CharSpacing" THEN Some(v.num) ELSE None
\* Prop::line_spacing
line_spacing(v) == IF v.tag = "LineSpacing" THEN Some(v.num) ELSE None
\* Prop::code_point
code_point(v) == IF v.tag = "CodePoint" THEN Some(v.num) ELSE None

\* ----------------------------------------------------------- line cursor

\* A Parser is [fmt, lines, pos, line, log]: lines is the whole input cut into
\* lines (str::lines), pos counts the lines the Lines iterator has handed out,
\* line is the pushback slot.  log is the history of the cursor: <<"input", l>>
\* for a line next_line took from the iterator, <<"slot", l>> for one it took
\* from the slot, <<"push", l>> for a call of push_line.
NewParser(fmt, lines) ==
    [fmt |-> fmt, lines |-> lines, pos |-> 0, line |-> None, log |-> <<>>]

\* Parser::next_line that drops the pushed-back line and reads on.
next_line_past_slot(p) ==
    LET rest == { i \in (p.pos + 1)..Len(p.lines) : p.lines[i] # "" } IN
    IF rest = {}
    THEN [val |-> None, p |-> [p EXCEPT !.pos = Len(p.lines), !.line = None]]
    ELSE [val |-> Some(p.lines[Min(rest)]),
          p |-> [p EXCEPT !.pos = Min(rest), !.line = None,
                          !.log = Append(@, <<"input", p.lines[Min(rest)]>>)]]

\* Parser::next_line: the pushed-back line if there is one, else the next
\* non-empty line of the input.  [val: Option<&str>, p: the parser afterwards]
next_line(p) ==
    IF IsSome(p.line)
    THEN [val |-> p.line,
          p |-> [p EXCEPT !.line = None, !.log = Append(@, <<"slot", Unwrap(p.line)>>)]]
    ELSE LET rest == { i \in (p.pos + 1)..Len(p.lines) : p.lines[i] # "" } IN
         IF rest = {}
         THEN [val |-> None, p |-> [p EXCEPT !.pos = Len(p.lines)]]
         ELSE [val |-> Some(p.lines[Min(rest)]),
               p |-> [p EXCEPT !.pos = Min(rest),
                               !.log = Append(@, <<"input", p.lines[Min(rest)]>>)]]

\* Parser::push_line that does not keep the line.
push_line_dropped(p, line) == [p EXCEPT !.line = None, !.log = Append(@, <<"push", line>>)]

\* Parser::push_line
push_line(p, line) == [p EXCEPT !.line = Some(line), !.log = Append(@, <<"push", line>>)]

\* What a call of prop() comes to: Some(prop), None, or a panic; and the parser
\* afterwards.
Yield(prop, p) == [ret |-> Some(prop), panic |-> FALSE, p |-> p]
End(p) == [ret |-> None, panic |-> FALSE, p |-> p]
Panic(p) == [ret |-> None, panic |-> TRUE, p |-> p]

\* u8::from_str(val).ok().map(variant) and u16::from_str(val).ok().map(variant)
ParseNum(val, max, tag, p) ==
    LET n == from_str(val, max) IN
    IF IsSome(n) THEN Yield(NumProp(tag, Unwrap(n)), p) ELSE End(p)

\* u8::try_from(len).unwrap_or(0)
U8OrZero(len) == IF len <= U8Max THEN len ELSE 0

\* line.chars(), as a sequence of chars
Chars(line) == [i \in 1..Len(line) |-> CharAt(line, i)]

\* ------------------------------------------------------------- tfon parser

\* The char U+0060 (grave accent): a TLA+ string cannot hold it, so the model
\* writes the char U+02CB for it, which no text of the program contains.
GraveAccent == "ˋ"

\* const SYMBOL: the symbols of the 256 ASCII + Latin 1 code points
SYMBOL == <<
    "NUL", "SOH", "STX", "ETX", "EOT", "ENQ", "ACK", "BEL", "BS", "HT", "LF",
    "VT", "FF", "CR", "SO", "SI", "DLE", "DC1", "DC2", "DC3", "DC4", "NAK",
    "SYN", "ETB", "CAN", "EM", "SUB", "ESC", "FS", "GS", "RS", "US", "SP", "!",
    "\"", "#", "$", "%", "&", "'", "(", ")", "*", "+", ",", "-", ".", "/", "0",
    "1", "2", "3", "4", "5", "6", "7", "8", "9", ":", ";", "<", "=", ">", "?",
    "@", "A", "B", "C", "D", "E", "F", "G", "H", "I", "J", "K", "L", "M", "N",
    "O", "P", "Q", "R", "S", "T", "U", "V", "W", "X", "Y", "Z", "[", "\\", "]",
    "^", "_", GraveAccent, "a", "b", "c", "d", "e", "f", "g", "h", "i", "j", "k", "l",
    "m", "n", "o", "p", "q", "r", "s", "t", "u", "v", "w", "x", "y", "z", "{",
    "|", "}", "~", "DEL", "PAD", "HOP", "BPH", "NBH", "IND", "NEL", "SSA",
    "ESA", "HTS", "HTJ", "LTS", "PLD", "PLU", "RI", "SS2", "SS3", "DCS", "PU1",
    "PU2", "STS", "CCH", "MW", "SPA", "EPA", "SOS", "SGCI", "SCI", "CSI", "ST",
    "OSC", "PM", "APC", "NBSP", "¡", "¢", "£", "¤", "¥", "¦", "§", "¨", "©",
    "ª", "«", "¬", "SHY", "®", "¯", "°", "±", "²", "³", "´", "µ", "¶", "·",
    "¸", "¹", "º", "»", "¼", "½", "¾", "¿", "À", "Á", "Â", "Ã", "Ä", "Å", "Æ",
    "Ç", "È", "É", "Ê", "Ë", "Ì", "Í", "Î", "Ï", "Ð", "Ñ", "Ò", "Ó", "Ô", "Õ",
    "Ö", "×", "Ø", "Ù", "Ú", "Û", "Ü", "Ý", "Þ", "ß", "à", "á", "â", "ã", "ä",
    "å", "æ", "ç", "è", "é", "ê", "ë", "ì", "í", "î", "ï", "ð", "ñ", "ò", "ó",
    "ô", "õ", "ö", "÷", "ø", "ù", "ú", "û", "ü", "ý", "þ", "ÿ"
>>

\* tfon::is_pixel_row
tfon_is_pixel_row(line) == AllChars(line, ".@")

\* tfon::row_pixels
tfon_row_pixels(line) == [i \in 1..Len(line) |-> CharAt(line, i) = "@"]

\* The while loop of tfon Parser::character.
RECURSIVE tfon_rows(_, _, _, _)
tfon_rows(p, bm, width, checks) ==
    LET nl == next_line(p) IN
    IF nl.val = None THEN Yield(Bitmap(bm), nl.p)
    ELSE LET line == Unwrap(nl.val) IN
         IF tfon_is_pixel_row(line) /\ Len(line) = width
         THEN LET pushed == push_row(bm, tfon_row_pixels(line), checks) IN
              IF pushed.panic THEN Panic(nl.p)
              ELSE tfon_rows(nl.p, pushed.bm, width, checks)
         ELSE Yield(Bitmap(bm), push_line(nl.p, line))

\* tfon Parser::character
tfon_character(p, line, checks) ==
    LET width == U8OrZero(Len(line)) IN
    IF width = 0 \/ ~tfon_is_pixel_row(line) THEN End(p)
    ELSE LET pushed == push_row(new(width), tfon_row_pixels(line), checks) IN
         IF pushed.panic THEN Panic(p)
         ELSE tfon_rows(p, pushed.bm, width, checks)

\* Mutant of tfon_ch: the symbol is not compared with the table.
tfon_ch_unchecked(val, p) ==
    LET sp == split_once(val, " ") IN
    IF sp = None THEN End(p)
    ELSE LET cp == from_str(Unwrap(sp)[1], U16Max) IN
         IF cp = None THEN End(p)
         ELSE IF Unwrap(cp) >= Len(SYMBOL) THEN Panic(p)
         ELSE Yield(CodePoint(Unwrap(cp)), p)

\* The `ch` arm of tfon Parser::prop: SYMBOL[usize::from(cp)] panics when cp is
\* not an index of the table.
tfon_ch(val, p) ==
    LET sp == split_once(val, " ") IN
    IF sp = None THEN End(p)
    ELSE LET cp == from_str(Unwrap(sp)[1], U16Max)
             symbol == Unwrap(sp)[2]
         IN  IF cp = None THEN End(p)
             ELSE IF Unwrap(cp) >= Len(SYMBOL) THEN Panic(p)
             ELSE IF symbol = SYMBOL[Unwrap(cp) + 1]
                  THEN Yield(CodePoint(Unwrap(cp)), p)
                  ELSE End(p)

\* tfon Parser::prop
tfon_prop(p, checks) ==
    LET nl == next_line(p) IN
    IF nl.val = None THEN End(nl.p)
    ELSE LET line == Unwrap(nl.val)
             kv == split_once(line, ": ")
         IN  IF kv = None THEN tfon_character(nl.p, line, checks)
             ELSE LET key == Unwrap(kv)[1]
                      val == Unwrap(kv)[2]
                  IN  CASE key = "font_name" -> Yield(FontName(val), nl.p)
                        [] key = "font_number" -> ParseNum(val, U8Max, "FontNumber", nl.p)
                        [] key = "char_spacing" -> ParseNum(val, U8Max, "CharSpacing", nl.p)
                        [] key = "line_spacing" -> ParseNum(val, U8Max, "LineSpacing", nl.p)
                        [] key = "ch" -> tfon_ch(val, nl.p)
                        [] OTHER -> Yield(Unknown(key), nl.p)

\* ------------------------------------------------------------ ifntx parser

\* ifntx::is_pixel_row
ifntx_is_pixel_row(line) == AllChars(line, ".X")

\* ifntx::row_pixels
ifntx_row_pixels(line) == [i \in 1..Len(line) |-> CharAt(line, i) = "X"]

\* The while loop of ifntx Parser::character.
RECURSIVE ifntx_rows(_, _, _, _)
ifntx_rows(p, bm, width, checks) ==
    LET nl == next_line(p) IN
    IF nl.val = None THEN Yield(Bitmap(bm), nl.p)
    ELSE LET line == Unwrap(nl.val) IN
         IF ifntx_is_pixel_row(line) /\ Len(line) = width
         THEN LET pushed == push_row(bm, ifntx_row_pixels(line), checks) IN
              IF pushed.panic THEN Panic(nl.p)
              ELSE ifntx_rows(nl.p, pushed.bm, width, checks)
         ELSE Yield(Bitmap(bm), push_line(nl.p, line))

\* ifntx Parser::character
ifntx_character(p, line, checks) ==
    LET width == U8OrZero(Len(line)) IN
    IF width = 0 \/ ~ifntx_is_pixel_row(line) THEN End(p)
    ELSE LET pushed == push_row(new(width), ifntx_row_pixels(line), checks) IN
         IF pushed.panic THEN Panic(p)
         ELSE ifntx_rows(p, pushed.bm, width, checks)

\* The `codepoint` arm of ifntx Parser::prop: the first whitespace-delimited
\* token of the value (the value itself if it has none).
ifntx_codepoint(val, p) ==
    LET toks == split_ascii_whitespace(val)
        cp == IF toks = <<>> THEN val ELSE toks[1]
    IN  ParseNum(cp, U16Max, "CodePoint", p)

\* ifntx Parser::prop
ifntx_prop(p, checks) ==
    LET nl == next_line(p) IN
    IF nl.val = None THEN End(nl.p)
    ELSE LET line == Unwrap(nl.val)
             kv == split_once(line, ": ")
         IN  IF kv = None THEN ifntx_character(nl.p, line, checks)
             ELSE LET key == Unwrap(kv)[1]
                      val == Unwrap(kv)[2]
                  IN  CASE key = "name" -> Yield(FontName(val), nl.p)
                        [] key = "font_number" -> ParseNum(val, U8Max, "FontNumber", nl.p)
                        [] key = "height" -> ParseNum(val, U8Max, "FontHeight", nl.p)
                        [] key = "width" -> ParseNum(val, U8Max, "FontWidth", nl.p)
                        [] key = "char_spacing" -> ParseNum(val, U8Max, "CharSpacing", nl.p)
                        [] key = "line_spacing" -> ParseNum(val, U8Max, "LineSpacing", nl.p)
                        [] key = "codepoint" -> ifntx_codepoint(val, nl.p)
                        [] OTHER -> Yield(Unknown(key), nl.p)

\* ------------------------------------------------------------- ifnt parser

\* Mutant of pixel_filter_map: the two pixel chars are exchanged.
pixel_filter_map_exchanged(c) ==
    IF c = "." THEN Some(TRUE)
    ELSE IF c = "X" THEN Some(FALSE)
    ELSE None

\* ifnt::pixel_filter_map
pixel_filter_map(c) ==
    IF c = "." THEN Some(FALSE)
    ELSE IF c = "X" THEN Some(TRUE)
    ELSE None

\* val.chars().map_while(pixel_filter_map): the pixels up to the first char
\* that is none.
FilterMapPixels_leading(val) ==
    LET other == { i \in 1..Len(val) : pixel_filter_map(CharAt(val, i)) = None }
        run == IF other = {} THEN Len(val) ELSE Min(other) - 1
    IN  [i \in 1..run |-> Unwrap(pixel_filter_map(CharAt(val, i)))]

\* val.chars().filter_map(pixel_filter_map)
FilterMapPixels(val) ==
    LET kept == SelectSeq(Chars(val), LAMBDA c : IsSome(pixel_filter_map(c))) IN
    [i \in 1..Len(kept) |-> Unwrap(pixel_filter_map(kept[i]))]

\* ifnt::parse_row
parse_row(line) ==
    LET kv == split_once(line, "=") IN
    IF starts_with(line, "row") /\ IsSome(kv)
    THEN FilterMapPixels(Unwrap(kv)[2])
    ELSE FilterMapPixels("")

\* The while loop of ifnt Parser::character.
RECURSIVE ifnt_rows(_, _, _, _)
ifnt_rows(p, bm, width, checks) ==
    LET nl == next_line(p) IN
    IF nl.val = None THEN Yield(Bitmap(bm), nl.p)
    ELSE LET line == Unwrap(nl.val) IN
         IF Len(parse_row(line)) = width
         THEN LET pushed == push_row(bm, parse_row(line), checks) IN
              IF pushed.panic THEN Panic(nl.p)
              ELSE ifnt_rows(nl.p, pushed.bm, width, checks)
         ELSE Yield(Bitmap(bm), push_line(nl.p, line))

\* ifnt Parser::character
ifnt_character(p, checks) ==
    LET nl == next_line(p) IN
    IF nl.val = None THEN End(nl.p)
    ELSE LET line == Unwrap(nl.val)
             width == U8OrZero(Len(parse_row(line)))
         IN  IF width = 0 THEN End(nl.p)
             ELSE LET pushed == push_row(new(width), parse_row(line), checks) IN
                  IF pushed.panic THEN Panic(nl.p)
                  ELSE ifnt_rows(nl.p, pushed.bm, width, checks)

\* The `[Char_<cp>]` test of ifnt Parser::prop: Some(cp text) for a section line.
ifnt_section(line) ==
    LET end == strip_prefix(line, "[Char_") IN
    IF IsSome(end) THEN strip_suffix(Unwrap(end), "]") ELSE None

\* ifnt Parser::prop
ifnt_prop(p, checks) ==
    LET nl == next_line(p) IN
    IF nl.val = None THEN End(nl.p)
    ELSE LET line == Unwrap(nl.val)
             kv == split_once(line, "=")
         IN  IF IsSome(ifnt_section(line))
             THEN ParseNum(Unwrap(ifnt_section(line)), U16Max, "CodePoint", nl.p)
             ELSE IF kv = None THEN Yield(Unknown(line), nl.p)
             ELSE LET key == Unwrap(kv)[1]
                      val == Unwrap(kv)[2]
                  IN  CASE key = "FontName" -> Yield(FontName(val), nl.p)
                        [] key = "FontHeight" -> ParseNum(val, U8Max, "FontHeight", nl.p)
                        [] key = "CharSpacing" -> ParseNum(val, U8Max, "CharSpacing", nl.p)
                        [] key = "LineSpacing" -> ParseNum(val, U8Max, "LineSpacing", nl.p)
                        [] key = "MaxCharNumber" -> ParseNum(val, U16Max, "MaxCharNumber", nl.p)
                        [] key = "Character" -> ifnt_character(nl.p, checks)
                        [] OTHER -> Yield(Unknown(key), nl.p)

\* -------------------------------------------------------------- bdf parser

\* bdf::is_pixel_row
bdf_is_pixel_row(line) ==
    AllChars(line, "1234567890ABCDEF")

\* bdf::hex_nybble, of a char: '0'-'9' is 0-9, 'A'-'F' is 10-15, anything else 0.
hex_nybble(c) ==
    IF Occurrences("0123456789", c) # {} THEN Min(Occurrences("0123456789", c)) - 1
    ELSE IF Occurrences("ABCDEF", c) # {} THEN Min(Occurrences("ABCDEF", c)) + 9
    ELSE 0

\* HexBitIter, collected: four bits for each char of the line, 0b1000 first.
HexBitIter(line) ==
    [k \in 1..(4 * Len(line)) |->
        BitSet(hex_nybble(CharAt(line, ((k - 1) \div 4) + 1)), 3 - ((k - 1) % 4))]

\* The while loop of bdf Parser::character.
RECURSIVE bdf_rows(_, _, _)
bdf_rows(p, bm, checks) ==
    LET nl == next_line(p) IN
    IF nl.val = None THEN Yield(Bitmap(bm), nl.p)
    ELSE LET line == Unwrap(nl.val) IN
         IF line = "ENDCHAR" THEN Yield(Bitmap(bm), nl.p)
         ELSE IF bdf_is_pixel_row(line)
              THEN LET pushed == push_row(bm, HexBitIter(line), checks) IN
                   IF pushed.panic THEN Panic(nl.p)
                   ELSE bdf_rows(nl.p, pushed.bm, checks)
              ELSE End(nl.p)

\* bdf Parser::character without its test of the width.
bdf_character_any_width(p, width, checks) ==
    LET bbx == next_line(p) IN
    IF bbx.val = None THEN End(bbx.p)
    ELSE IF ~starts_with(Unwrap(bbx.val), "BBX") THEN End(bbx.p)
    ELSE LET bitmap_line == next_line(bbx.p) IN
         IF bitmap_line.val = None THEN End(bitmap_line.p)
         ELSE IF Unwrap(bitmap_line.val) # "BITMAP" THEN End(bitmap_line.p)
         ELSE bdf_rows(bitmap_line.p, new(width), checks)

\* bdf Parser::character
bdf_character(p, width, checks) ==
    IF width = 0 THEN End(p)
    ELSE LET bbx == next_line(p) IN
         IF bbx.val = None THEN End(bbx.p)
         ELSE IF ~starts_with(Unwrap(bbx.val), "BBX") THEN End(bbx.p)
         ELSE LET bitmap_line == next_line(bbx.p) IN
              IF bitmap_line.val = None THEN End(bitmap_line.p)
              ELSE IF Unwrap(bitmap_line.val) # "BITMAP" THEN End(bitmap_line.p)
              ELSE bdf_rows(bitmap_line.p, new(width), checks)

\* The match of bdf Parser::prop on the tokens of a line.
bdf_match(line, p, checks) ==
    LET tok == split(line, " ")
        second == IF Len(tok) >= 2 THEN Some(tok[2]) ELSE None
    IN  CASE tok[1] = "FONT" ->
                IF IsSome(second) THEN Yield(FontName(Unwrap(second)), p) ELSE End(p)
          [] tok[1] = "SIZE" ->
                IF IsSome(second) THEN ParseNum(Unwrap(second), U8Max, "FontHeight", p)
                ELSE End(p)
          [] tok[1] = "FONT_ASCENT" ->
                IF IsSome(second) THEN ParseNum(Unwrap(second), U8Max, "Baseline", p)
                ELSE End(p)
          [] tok[1] = "ENCODING" ->
                IF IsSome(second) THEN ParseNum(Unwrap(second), U16Max, "CodePoint", p)
                ELSE End(p)
          [] tok[1] = "DWIDTH" ->
                IF IsSome(second) /\ IsSome(from_str(Unwrap(second), U8Max))
                THEN bdf_character(p, Unwrap(from_str(Unwrap(second), U8Max)), checks)
                ELSE End(p)
          [] OTHER -> Yield(Unknown(line), p)

\* bdf Parser::prop
bdf_prop(p, checks) ==
    LET nl == next_line(p) IN
    IF nl.val = None THEN End(nl.p)
    ELSE LET key == split(Unwrap(nl.val), " ")[1] IN
         IF key = "ENDFONT" THEN End(nl.p)
         ELSE IF key = "ENDPROPERTIES"
              THEN LET nl2 == next_line(nl.p) IN
                   IF nl2.val = None THEN End(nl2.p)
                   ELSE bdf_match(Unwrap(nl2.val), nl2.p, checks)
              ELSE bdf_match(Unwrap(nl.val), nl.p, checks)

\* ------------------------------------------------- the Bitmap specification

\* The rows push_row is given: every sequence of at most MaxRowLen booleans.
Rows == UNION { [1..n -> BOOLEAN] : n \in 0..MaxRowLen }

\* The packed buffers from_bits is given.
Bytes == {0, 165, 255}
Buffers == UNION { [1..n -> Bytes] : n \in 0..2 }

\* No parser and no writer takes part in the Bitmap specification.
IdleParser == [fmt |-> "none", lines |-> <<>>, pos |-> 0, line |-> None, log |-> <<>>]
IdleReturn == [status |-> "start", prop |-> Unknown("")]

InitBitmap ==
    /\ overflow_checks \in BOOLEAN
    /\ bitmap = None
    /\ rows = <<>>
    /\ parser = IdleParser
    /\ ret = IdleReturn
    /\ props = <<>>
    /\ sink = ""
    /\ result = "pending"
    /\ reparsed = <<>>
    /\ given = [spec |-> "bitmap", origin |-> "none"]

\* Bitmap::new(width)
BitmapNew ==
    /\ given.spec = "bitmap"
    /\ given.origin = "none"
    /\ \E width \in 0..MaxWidth :
          /\ bitmap' = Some(new(width))
          /\ given' = [given EXCEPT !.origin = "new"]
    /\ result' = "Ok"
    /\ UNCHANGED <<overflow_checks, rows, parser, ret, props, sink, reparsed>>

\* Bitmap::from_bits(height, width, bmap): Some(Bitmap) or None
BitmapFromBits ==
    /\ given.spec = "bitmap"
    /\ given.origin = "none"
    /\ \E height \in 0..2, width \in 0..MaxWidth, bmap \in Buffers :
          /\ bitmap' = from_bits(height, width, bmap)
          /\ rows' = <<bmap>>
          /\ given' = [given EXCEPT !.origin = "from_bits"]
    /\ result' = "Ok"
    /\ UNCHANGED <<overflow_checks, parser, ret, props, sink, reparsed>>

\* bitmap.push_row(row) on a Bitmap made by Bitmap::new (push_row is pub(crate):
\* the parsers are its only callers, and they push onto Bitmap::new).
BitmapPushRow ==
    /\ given.spec = "bitmap"
    /\ given.origin = "new"
    /\ result # "Panic"
    /\ Len(rows) < MaxPushes
    /\ \E row \in Rows :
          /\ Len(rows) < MaxFreeRows \/ \A i \in 1..Len(rows) : rows[i] = row
          /\ LET pushed == push_row(Unwrap(bitmap), row, overflow_checks) IN
             /\ bitmap' = Some(pushed.bm)
             /\ result' = IF pushed.panic THEN "Panic" ELSE "Ok"
          /\ rows' = Append(rows, row)
    /\ UNCHANGED <<overflow_checks, parser, ret, props, sink, reparsed, given>>

NextBitmap == BitmapNew \/ BitmapFromBits \/ BitmapPushRow

SpecBitmap == InitBitmap /\ [][NextBitmap]_vars

\* The pixels the rows r1..rn pushed onto a Bitmap of width w stand for: n*w
\* booleans, row-major, pixel i*w+j = r_i[j] if j < len(r_i) and false otherwise.
RowMajor(rs, w) ==
    [k \in 1..(Len(rs) * w) |->
        LET r == rs[((k - 1) \div w) + 1]
            j == (k - 1) % w
        IN  IF j < Len(r) THEN r[j + 1] ELSE FALSE]

\* C2: after Bitmap::new(w) and push_row of r1..rn, no call has panicked and
\* pixels() yields exactly the n*w booleans of r1..rn in row-major order, each
\* row cut or padded with false to w pixels.
C2_RowMajorPixels ==
    given.spec = "bitmap" /\ given.origin = "new" =>
        /\ result # "Panic"
        /\ pixels(Unwrap(bitmap)) = RowMajor(rows, Unwrap(bitmap).width)

\* The same statement for at most u8::MAX rows (the part of C2 the code keeps).
RowMajorPixelsUpToU8Max ==
    given.spec = "bitmap" /\ given.origin = "new" /\ Len(rows) <= U8Max =>
        /\ result # "Panic"
        /\ pixels(Unwrap(bitmap)) = RowMajor(rows, Unwrap(bitmap).width)

\* C3: every Bitmap built by new and push_row calls, and every Bitmap from_bits
\* returns, has a buffer of ceil(width*height/8) bytes (and building it never
\* panics).
C3_BufferLength ==
    given.spec = "bitmap" /\ IsSome(bitmap) =>
        /\ result # "Panic"
        /\ Len(Unwrap(bitmap).bmap) = (PixelCount(Unwrap(bitmap)) + 7) \div 8

\* The same statement for at most u8::MAX rows.
BufferLengthUpToU8Max ==
    given.spec = "bitmap" /\ IsSome(bitmap) /\ Len(rows) <= U8Max =>
        /\ result # "Panic"
        /\ Len(Unwrap(bitmap).bmap) = (PixelCount(Unwrap(bitmap)) + 7) \div 8

\* ------------------------------------------------- the parser specification

\* Iterator::next of the parser of p's format.
parser_next(p, checks) ==
    CASE p.fmt = "bdf" -> bdf_prop(p, checks)
      [] p.fmt = "ifnt" -> ifnt_prop(p, checks)
      [] p.fmt = "ifntx" -> ifntx_prop(p, checks)
      [] p.fmt = "tfon" -> tfon_prop(p, checks)

\* Parser::new(buf).collect(): the props yielded up to the first None.
\* [props: the Vec, panic: whether a call panicked]
RECURSIVE collect(_, _)
collect(p, checks) ==
    LET out == parser_next(p, checks) IN
    IF out.panic THEN [props |-> <<>>, panic |-> TRUE]
    ELSE IF out.ret = None THEN [props |-> <<>>, panic |-> FALSE]
    ELSE LET rest == collect(out.p, checks) IN
         [props |-> <<Unwrap(out.ret)>> \o rest.props, panic |-> rest.panic]

\* The record of a call's return in the variable ret.
Returned(out) ==
    IF out.panic THEN [status |-> "Panic", prop |-> Unknown("")]
    ELSE IF IsSome(out.ret) THEN [status |-> "Some", prop |-> Unwrap(out.ret)]
    ELSE [status |-> "None", prop |-> Unknown("")]

\* The lines input documents are made of, for each format.
TfonLines ==
    { "", "font_name: a b", "font_number: 2", "char_spacing: 256", "ch: 65 A",
      "ch: 65 Z", "ch: 256 A", ".@", "@@", "@.@", "x: y", "junk" }
IfntxLines ==
    { "", "name: n", "height: 7", "width: +5", "codepoint: 65 A", "codepoint: x",
      ".X", "XX", "X", "k: v", "junk!" }
IfntLines ==
    { "", "[FontInfo]", "FontName=n", "FontHeight=7", "MaxCharNumber=70000",
      "[Char_65]", "[Char_x]", "Character='A'", "row01= . X", "row02= X X",
      "row03= .", "k=v" }
BdfLines ==
    { "", "STARTFONT 2.1", "FONT a b", "SIZE 7 75 75", "SIZE x", "ENCODING 65",
      "ENDPROPERTIES", "ENDFONT", "DWIDTH 5 0", "DWIDTH 0 0", "BBX 5 7 0 0",
      "BITMAP", "F8", "ENDCHAR" }

\* Most lines of an input document (after its fixed opening lines).
MaxLines == 3

Texts(lineset) == UNION { [1..n -> lineset] : n \in 0..MaxLines }

\* The input documents: any lines of the format; for bdf also the opening of a
\* character block followed by any lines.
Documents(fmt) ==
    CASE fmt = "tfon" -> Texts(TfonLines)
      [] fmt = "ifntx" -> Texts(IfntxLines)
      [] fmt = "ifnt" -> Texts(IfntLines)
      [] fmt = "bdf" ->
            Texts(BdfLines) \cup
            { <<"DWIDTH 5 0", "BBX 5 7 0 0", "BITMAP">> \o t : t \in Texts(BdfLines) }

InitParse ==
    /\ overflow_checks \in BOOLEAN
    /\ bitmap = None
    /\ rows = <<>>
    /\ \E fmt \in {"bdf", "ifnt", "ifntx", "tfon"} :
          \E lines \in Documents(fmt) : parser = NewParser(fmt, lines)
    /\ ret = IdleReturn
    /\ props = <<>>
    /\ sink = ""
    /\ result = "pending"
    /\ reparsed = <<>>
    /\ given = [spec |-> "parse"]

\* The effect of one call of Parser::next that came to `out`.
Called(out) ==
    /\ parser' = out.p
    /\ ret' = Returned(out)
    /\ UNCHANGED <<overflow_checks, bitmap, rows, props, sink, result, reparsed, given>>

\* One call of next() of the bdf parser (a parser that panicked is gone).
BdfNext ==
    /\ parser.fmt = "bdf"
    /\ ret.status # "Panic"
    /\ Called(bdf_prop(parser, overflow_checks))

\* One call of next() of the ifnt parser.
IfntNext ==
    /\ parser.fmt = "ifnt"
    /\ ret.status # "Panic"
    /\ Called(ifnt_prop(parser, overflow_checks))

\* One call of next() of the ifntx parser.
IfntxNext ==
    /\ parser.fmt = "ifntx"
    /\ ret.status # "Panic"
    /\ Called(ifntx_prop(parser, overflow_checks))

\* One call of next() of the tfon parser.
TfonNext ==
    /\ parser.fmt = "tfon"
    /\ ret.status # "Panic"
    /\ Called(tfon_prop(parser, overflow_checks))

NextParse == BdfNext \/ IfntNext \/ IfntxNext \/ TfonNext

SpecParse == InitParse /\ [][NextParse]_vars

\* C4: no call of a parser's next panics: every call returns a Prop or end.
C4_NoPanic == ret.status # "Panic"

\* C5: once a call has returned end, no later call returns a Prop: every later
\* call that returns, returns end.
C5_EndIsFinal == [][ret.status = "None" => ret'.status # "Some"]_vars

\* ------------------------------------------- the `ch:` line specification

\* The line `ch: <cp> <s>`
ChLine(cp, s) == "ch: " \o Decimal(cp) \o " " \o s

\* Symbol texts tried for the code point cp: its own table entry, the next
\* entry, the entry with a space or another word around it, and other texts.
SymbolTexts(cp) ==
    { SYMBOL[cp + 1], SYMBOL[((cp + 1) % Len(SYMBOL)) + 1], "", "Z", "A",
      SYMBOL[cp + 1] \o " ", " " \o SYMBOL[cp + 1], SYMBOL[cp + 1] \o " x" }

InitCh ==
    /\ overflow_checks \in BOOLEAN
    /\ bitmap = None
    /\ rows = <<>>
    /\ \E cp \in 0..(Len(SYMBOL) - 1) :
          \E s \in SymbolTexts(cp) :
             /\ given = [spec |-> "ch", cp |-> cp, symbol |-> s]
             /\ parser = NewParser("tfon", <<ChLine(cp, s), "font_number: 2">>)
    /\ ret = IdleReturn
    /\ props = <<>>
    /\ sink = ""
    /\ result = "pending"
    /\ reparsed = <<>>

SpecCh == InitCh /\ [][TfonNext]_vars

\* The state after the one call that read the `ch:` line.
AfterChCall == given.spec = "ch" /\ parser.pos = 1 /\ ret.status # "start"

\* C6: for cp in 0..255 the line `ch: <cp> <s>` yields CodePoint(cp) exactly
\* when s is entry cp of the symbol table; otherwise the call yields end and the
\* collected sequence stops at that line.
C6_ChSymbol ==
    AfterChCall =>
        LET seq == collect(NewParser("tfon", parser.lines), overflow_checks) IN
        IF given.symbol = SYMBOL[given.cp + 1]
        THEN /\ ret = [status |-> "Some", prop |-> CodePoint(given.cp)]
             /\ seq.props = <<CodePoint(given.cp), FontNumber(2)>>
        ELSE /\ ret.status = "None"
             /\ seq.props = <<>>
             /\ ~seq.panic

\* Witness: `ch: 65 A` has yielded CodePoint(65).
C6_WitnessMatch ==
    /\ AfterChCall
    /\ parser.lines[1] = "ch: 65 A"
    /\ ret = [status |-> "Some", prop |-> CodePoint(65)]

\* `ch: 65 Z` has yielded end.
C6_WitnessMismatch ==
    /\ AfterChCall
    /\ parser.lines[1] = "ch: 65 Z"
    /\ ret.status = "None"

\* ----------------------------------------------------------------- writers

\* Error::Expected(name), by its Display text
Expected(name) == "Expected property '" \o name \o "'"

\* Mutant of font_height: a Bitmap does not stand for the font height.
font_height_only(v) == IF v.tag = "FontHeight" THEN Some(v.num) ELSE None

\* Prop::font_height: a FontHeight, or the height of a Bitmap
font_height(v) ==
    IF v.tag = "FontHeight" THEN Some(v.num)
    ELSE IF v.tag = "Bitmap" THEN Some(v.bm.height)
    ELSE None

\* props.iter().filter_map(f).last() in the place of find_map: the last Some
find_map_last(found) ==
    LET hits == { i \in 1..Len(found) : IsSome(found[i]) } IN
    IF hits = {} THEN None ELSE found[CHOOSE i \in hits : \A j \in hits : j <= i]

\* props.iter().find_map(f), given f of every prop in order: the first Some
find_map(found) ==
    LET hits == { i \in 1..Len(found) : IsSome(found[i]) } IN
    IF hits = {} THEN None ELSE found[Min(hits)]

\* props.iter().find_map(|v| v.font_name()) and the like
find_font_name(seq) == find_map([i \in 1..Len(seq) |-> font_name(seq[i])])
find_font_number(seq) == find_map([i \in 1..Len(seq) |-> font_number(seq[i])])
find_font_height(seq) == find_map([i \in 1..Len(seq) |-> font_height(seq[i])])
find_char_spacing(seq) == find_map([i \in 1..Len(seq) |-> char_spacing(seq[i])])
find_line_spacing(seq) == find_map([i \in 1..Len(seq) |-> line_spacing(seq[i])])

\* The printable ASCII chars, code points 32 to 126.
Ascii ==
    " !\"#$%&'()*+,-./0123456789:;<=>?@ABCDEFGHIJKLMNOPQRSTUVWXYZ[\\]^_"
    \o GraveAccent \o "abcdefghijklmnopqrstuvwxyz{|}~"

\* char::from_u32(cp) for 32 <= cp < 127
from_u32(cp) == CharAt(Ascii, cp - 31)

\* The columns a font name is padded to ("{font_name:64}").
NameColumns == 64

\* Mutant of ifnt_max_char_num: the largest code point, not the last.
ifnt_max_char_num_largest(seq) ==
    LET cps == { i \in 1..Len(seq) : IsSome(code_point(seq[i])) } IN
    IF cps = {} THEN None
    ELSE code_point(seq[CHOOSE i \in cps : \A j \in cps : seq[j].num <= seq[i].num])

\* props.iter().filter_map(|v| v.code_point()).last()
ifnt_max_char_num(seq) ==
    LET cps == { i \in 1..Len(seq) : IsSome(code_point(seq[i])) } IN
    IF cps = {} THEN None
    ELSE code_point(seq[CHOOSE i \in cps : \A j \in cps : j <= i])

\* The header lines ifnt::write prints.
ifnt_header(name, height, cs, ls, max) ==
    "[FontInfo]\n"
    \o "FontName=" \o PadRight(name, NameColumns) \o "\n"
    \o "FontHeight=" \o Decimal(height) \o "\n"
    \o "CharSpacing=" \o Decimal(cs) \o "\n"
    \o "LineSpacing=" \o Decimal(ls) \o "\n"
    \o "MaxCharNumber=" \o Decimal(max) \o "\n"

\* The CodePoint arm of ifnt::write with the section number in hex.
ifnt_code_point_hex(cp) ==
    "\n"
    \o "[Char_" \o LowerHex(cp) \o "]\n"
    \o (IF cp >= 32 /\ cp < 127
        THEN "Character='" \o from_u32(cp) \o "'\n"
        ELSE "Character=0x" \o LowerHex(cp) \o "\n")

\* The CodePoint arm of ifnt::write: the lines it prints.
ifnt_code_point(cp) ==
    "\n"
    \o "[Char_" \o Decimal(cp) \o "]\n"
    \o (IF cp >= 32 /\ cp < 127
        THEN "Character='" \o from_u32(cp) \o "'\n"
        ELSE "Character=0x" \o LowerHex(cp) \o "\n")

\* The pixel loop of the Bitmap arm of ifnt::write: the text it prints for the
\* pixels lo..hi (1-based) of pix.  Before pixel k the loop's col is
\* (k - 1) % width and its row is (k - 1) / width + 1; the text is put together
\* by halves.
RECURSIVE ifnt_pixels(_, _, _, _)
ifnt_pixels(pix, width, lo, hi) ==
    IF lo > hi THEN ""
    ELSE IF lo = hi
    THEN LET col == (lo - 1) % width
             row == ((lo - 1) \div width) + 1
         IN  (IF col = 0 THEN "row" \o PadZero(row, 2) \o "=" ELSE "")
             \o (IF pix[lo] THEN " X" ELSE " .")
             \o (IF col + 1 >= width THEN "\n" ELSE "")
    ELSE LET mid == (lo + hi) \div 2 IN
         ifnt_pixels(pix, width, lo, mid) \o ifnt_pixels(pix, width, mid + 1, hi)

\* Mutant of ifnt_ch_init: the flag starts false.
ifnt_ch_init_false == FALSE

\* `let mut ch = true` of ifnt::write
ifnt_ch_init == TRUE

\* The loop of ifnt::write over the props, from the flag ch and the text out.
RECURSIVE ifnt_body(_, _, _)
ifnt_body(seq, ch, out) ==
    IF seq = <<>> THEN [result |-> "Ok", sink |-> out]
    ELSE LET prop == Head(seq) IN
         CASE prop.tag = "CodePoint" ->
                ifnt_body(Tail(seq), FALSE, out \o ifnt_code_point(prop.num))
           [] prop.tag = "Bitmap" ->
                IF ch THEN [result |-> Expected("Character"), sink |-> out]
                ELSE ifnt_body(Tail(seq), TRUE,
                               out \o ifnt_pixels(pixels(prop.bm), prop.bm.width,
                                                  1, PixelCount(prop.bm)))
           [] OTHER -> ifnt_body(Tail(seq), ch, out)

\* ifnt::write that prints the [FontInfo] line before its lookups.
ifnt_write_section_first(seq) ==
    LET name == find_font_name(seq)
        height == find_font_height(seq)
        cs == find_char_spacing(seq)
        ls == find_line_spacing(seq)
        max == ifnt_max_char_num(seq)
        begun == "[FontInfo]\n"
    IN  IF name = None THEN [result |-> Expected("FontName"), sink |-> begun]
        ELSE IF height = None THEN [result |-> Expected("FontHeight"), sink |-> begun]
        ELSE IF cs = None THEN [result |-> Expected("CharSpacing"), sink |-> begun]
        ELSE IF ls = None THEN [result |-> Expected("LineSpacing"), sink |-> begun]
        ELSE IF max = None THEN [result |-> Expected("MaxCharNumber"), sink |-> begun]
        ELSE ifnt_body(seq, ifnt_ch_init,
                       ifnt_header(Unwrap(name), Unwrap(height), Unwrap(cs),
                                   Unwrap(ls), Unwrap(max)))

\* ifnt::write: [result: "Ok" or the error, sink: the text written]
ifnt_write(seq) ==
    LET name == find_font_name(seq)
        height == find_font_height(seq)
        cs == find_char_spacing(seq)
        ls == find_line_spacing(seq)
        max == ifnt_max_char_num(seq)
    IN  IF name = None THEN [result |-> Expected("FontName"), sink |-> ""]
        ELSE IF height = None THEN [result |-> Expected("FontHeight"), sink |-> ""]
        ELSE IF cs = None THEN [result |-> Expected("CharSpacing"), sink |-> ""]
        ELSE IF ls = None THEN [result |-> Expected("LineSpacing"), sink |-> ""]
        ELSE IF max = None THEN [result |-> Expected("MaxCharNumber"), sink |-> ""]
        ELSE ifnt_body(seq, ifnt_ch_init,
                       ifnt_header(Unwrap(name), Unwrap(height), Unwrap(cs),
                                   Unwrap(ls), Unwrap(max)))

\* Mutant of unwrap_or: the default is 0 whatever the caller gives.
unwrap_or_zero(o, default) == IF IsSome(o) THEN Unwrap(o) ELSE 0

\* Option::unwrap_or
unwrap_or(o, default) == IF IsSome(o) THEN Unwrap(o) ELSE default

\* The header lines tfon::write prints.
tfon_header(name, number, cs, ls) ==
    "font_name: " \o PadRight(name, NameColumns) \o "\n"
    \o "font_number: " \o Decimal(number) \o "\n"
    \o "char_spacing: " \o Decimal(cs) \o "\n"
    \o "line_spacing: " \o Decimal(ls) \o "\n"

\* The pixel loop of the Bitmap arm of tfon::write.
RECURSIVE tfon_pixels(_, _, _, _)
tfon_pixels(pix, width, col, out) ==
    IF pix = <<>> THEN out
    ELSE LET dot == out \o (IF Head(pix) THEN "@" ELSE ".") IN
         IF col + 1 >= width
         THEN tfon_pixels(Tail(pix), width, 0, dot \o "\n")
         ELSE tfon_pixels(Tail(pix), width, col + 1, dot)

\* Mutant of tfon_body: a code point past the table takes the symbol of its low
\* byte instead of being rejected.
RECURSIVE tfon_body_low_byte(_, _, _)
tfon_body_low_byte(seq, ch, out) ==
    IF seq = <<>> THEN [result |-> "Ok", sink |-> out]
    ELSE LET prop == Head(seq) IN
         CASE prop.tag = "CodePoint" ->
                tfon_body_low_byte(Tail(seq), FALSE,
                    out \o "\n" \o "ch: " \o Decimal(prop.num) \o " "
                        \o SYMBOL[(prop.num % Len(SYMBOL)) + 1] \o "\n")
           [] prop.tag = "Bitmap" ->
                IF ch THEN [result |-> Expected("ch"), sink |-> out]
                ELSE tfon_body_low_byte(Tail(seq), TRUE,
                         tfon_pixels(pixels(prop.bm), prop.bm.width, 0, out))
           [] OTHER -> tfon_body_low_byte(Tail(seq), ch, out)

\* The loop of tfon::write over the props, from the flag ch and the text out.
RECURSIVE tfon_body(_, _, _)
tfon_body(seq, ch, out) ==
    IF seq = <<>> THEN [result |-> "Ok", sink |-> out]
    ELSE LET prop == Head(seq) IN
         CASE prop.tag = "CodePoint" ->
                IF prop.num < Len(SYMBOL)
                THEN tfon_body(Tail(seq), FALSE,
                               out \o "\n" \o "ch: " \o Decimal(prop.num) \o " "
                                   \o SYMBOL[prop.num + 1] \o "\n")
                ELSE [result |-> Expected("ch"), sink |-> out]
           [] prop.tag = "Bitmap" ->
                IF ch THEN [result |-> Expected("ch"), sink |-> out]
                ELSE tfon_body(Tail(seq), TRUE,
                               tfon_pixels(pixels(prop.bm), prop.bm.width, 0, out))
           [] OTHER -> tfon_body(Tail(seq), ch, out)

\* tfon::write: [result: "Ok" or the error, sink: the text written]
tfon_write(seq) ==
    LET name == find_font_name(seq)
        number == unwrap_or(find_font_number(seq), 1)
        cs == unwrap_or(find_char_spacing(seq), 0)
        ls == unwrap_or(find_line_spacing(seq), 0)
    IN  IF name = None THEN [result |-> Expected("font_name"), sink |-> ""]
        ELSE tfon_body(seq, TRUE, tfon_header(Unwrap(name), number, cs, ls))

\* str::lines: the text cut at each "\n", a final empty piece dropped.
lines(text) ==
    LET pieces == split(text, "\n") IN
    IF pieces[Len(pieces)] = "" THEN SubSeq(pieces, 1, Len(pieces) - 1) ELSE pieces

\* ------------------------------------------------- the writer specification

\* Most props of the body (CodePoints and Bitmaps) of a sequence given to write.
MaxBody == 4

\* The rows r1..rn pushed onto Bitmap::new(width), in a build that wraps.
RECURSIVE Pushed(_, _)
Pushed(bm, rs) ==
    IF rs = <<>> THEN bm ELSE Pushed(push_row(bm, Head(rs), FALSE).bm, Tail(rs))

\* A 2 x 2 and a 3 x 1 glyph.
Glyph2x2 == Pushed(new(2), << <<TRUE, FALSE>>, <<FALSE, TRUE>> >>)
Glyph3x1 == Pushed(new(3), << <<TRUE, TRUE, FALSE>> >>)

\* The header props a sequence may hold (any subset, in this order) and the
\* props its body is made of.
HeaderProps ==
    << FontName("f"), FontNumber(2), FontHeight(7), CharSpacing(1), LineSpacing(3) >>
BodyProps ==
    << CodePoint(65), CodePoint(300), Bitmap(Glyph2x2), Bitmap(Glyph3x1) >>

\* The header props whose index is in the set keep, in order.
HeaderOf(keep) == SelectSeq([i \in 1..Len(HeaderProps) |-> i], LAMBDA i : i \in keep)

Select(seq, idx) == [k \in 1..Len(idx) |-> seq[idx[k]]]

\* The sequences given to write: a subset of the header props before or after a
\* body of at most MaxBody props.
Sequences ==
    { IF first THEN Select(HeaderProps, HeaderOf(keep)) \o Select(BodyProps, body)
      ELSE Select(BodyProps, body) \o Select(HeaderProps, HeaderOf(keep)) :
        first \in BOOLEAN,
        keep \in SUBSET (1..Len(HeaderProps)),
        body \in UNION { [1..n -> 1..Len(BodyProps)] : n \in 0..MaxBody } }

InitWrite ==
    /\ overflow_checks = FALSE
    /\ bitmap = None
    /\ rows = <<>>
    /\ parser = IdleParser
    /\ ret = IdleReturn
    /\ props \in Sequences
    /\ sink = ""
    /\ result = "pending"
    /\ reparsed = <<>>
    /\ given \in { [spec |-> "write", fmt |-> f] : f \in {"ifnt", "tfon"} }

\* ifnt::write(sink, props)
IfntWrite ==
    /\ given.spec = "write"
    /\ given.fmt = "ifnt"
    /\ result = "pending"
    /\ result' = ifnt_write(props).result
    /\ sink' = ifnt_write(props).sink
    /\ UNCHANGED <<overflow_checks, bitmap, rows, parser, ret, props, reparsed, given>>

\* tfon::write(sink, props)
TfonWrite ==
    /\ given.spec = "write"
    /\ given.fmt = "tfon"
    /\ result = "pending"
    /\ result' = tfon_write(props).result
    /\ sink' = tfon_write(props).sink
    /\ UNCHANGED <<overflow_checks, bitmap, rows, parser, ret, props, reparsed, given>>

NextWrite == IfntWrite \/ TfonWrite

SpecWrite == InitWrite /\ [][NextWrite]_vars

\* Whether the sequence holds a prop of the variant.
HasTag(seq, tag) == \E i \in 1..Len(seq) : seq[i].tag = tag

\* Whether a writer's result is an Error::Expected.
IsExpected(res) == starts_with(res, "Expected property '")

\* ifnt::write / tfon::write has returned.
IfntWritten == given.spec = "write" /\ given.fmt = "ifnt" /\ result # "pending"
TfonWritten == given.spec = "write" /\ given.fmt = "tfon" /\ result # "pending"

\* FontName, FontHeight, CharSpacing and LineSpacing props are all present.
HeaderPropsPresent(seq) ==
    /\ HasTag(seq, "FontName")
    /\ HasTag(seq, "FontHeight")
    /\ HasTag(seq, "CharSpacing")
    /\ HasTag(seq, "LineSpacing")

\* Two consecutive CodePoint entries, no Bitmap (nor anything else) between.
ConsecutiveCodePoints(seq) ==
    \E i \in 1..(Len(seq) - 1) : seq[i].tag = "CodePoint" /\ seq[i + 1].tag = "CodePoint"

\* C7: given two consecutive CodePoints and all required header props,
\* ifnt::write returns the "expected Character" error.
C7_ConsecutiveCodePoints ==
    IfntWritten /\ HeaderPropsPresent(props) /\ ConsecutiveCodePoints(props) =>
        result = Expected("Character")

\* The Bitmaps with no CodePoint between them and the previous Bitmap, or the
\* start of the sequence.
BadBitmaps(seq) ==
    { i \in 1..Len(seq) :
        /\ seq[i].tag = "Bitmap"
        /\ \E from \in 0..(i - 1) :
              /\ from = 0 \/ seq[from].tag = "Bitmap"
              /\ \A k \in (from + 1)..(i - 1) : seq[k].tag \notin {"Bitmap", "CodePoint"} }

\* The first such Bitmap stands before any CodePoint.
BeforeAnyCodePoint(seq) ==
    \A k \in 1..(Min(BadBitmaps(seq)) - 1) : seq[k].tag # "CodePoint"

\* Every header lookup of ifnt::write finds a prop (a Bitmap stands for a
\* missing FontHeight).
IfntLookupsFound(seq) ==
    /\ HasTag(seq, "FontName")
    /\ HasTag(seq, "FontHeight") \/ HasTag(seq, "Bitmap")
    /\ HasTag(seq, "CharSpacing")
    /\ HasTag(seq, "LineSpacing")
    /\ HasTag(seq, "CodePoint")

\* C8 as claimed: a Bitmap with no CodePoint before it makes both writers
\* return an Expected error, and in the ifnt writer that error is "expected
\* CodePoint" for a Bitmap before any CodePoint and "expected Character" for a
\* Bitmap after a Bitmap.
C8_AsClaimed ==
    (IfntWritten \/ TfonWritten) /\ BadBitmaps(props) # {} =>
        /\ IsExpected(result)
        /\ IfntWritten /\ IfntLookupsFound(props) =>
              result = IF BeforeAnyCodePoint(props)
                       THEN Expected("CodePoint")
                       ELSE Expected("Character")

\* C8 (amended): a Bitmap with no CodePoint before it makes both writers return
\* an Expected error, never Ok; when the header lookups succeed that error is
\* "expected Character" in the ifnt writer and "expected ch" in the tfon
\* writer, in both positions.
C8_BitmapAdjacency ==
    (IfntWritten \/ TfonWritten) /\ BadBitmaps(props) # {} =>
        /\ IsExpected(result)
        /\ IfntWritten /\ IfntLookupsFound(props) => result = Expected("Character")
        /\ TfonWritten /\ HasTag(props, "FontName") => result = Expected("ch")

\* Witness: the ifnt writer was given a Bitmap before any CodePoint, with every
\* header lookup found, and returned "expected Character".
C8_Witness ==
    /\ IfntWritten
    /\ IfntLookupsFound(props)
    /\ BadBitmaps(props) # {}
    /\ BeforeAnyCodePoint(props)
    /\ result = Expected("Character")

\* The name of the first header lookup of ifnt::write that finds nothing, in the
\* order of the lookups ("" if every lookup finds a prop); `height` tells which
\* props stand for the font height.
FirstMissing(seq, height) ==
    IF ~HasTag(seq, "FontName") THEN "FontName"
    ELSE IF \A t \in height : ~HasTag(seq, t) THEN "FontHeight"
    ELSE IF ~HasTag(seq, "CharSpacing") THEN "CharSpacing"
    ELSE IF ~HasTag(seq, "LineSpacing") THEN "LineSpacing"
    ELSE IF ~HasTag(seq, "CodePoint") THEN "MaxCharNumber"
    ELSE ""

HeaderErrors ==
    { Expected(n) :
        n \in {"FontName", "FontHeight", "CharSpacing", "LineSpacing", "MaxCharNumber"} }

\* C9 as claimed: ifnt::write succeeds only if FontName, FontHeight,
\* CharSpacing, LineSpacing and a CodePoint are present, and returns the
\* Expected error of an absent one otherwise (Bitmaps do not count).
C9_AsClaimed ==
    IfntWritten /\ FirstMissing(props, {"FontHeight"}) # "" =>
        result = Expected(FirstMissing(props, {"FontHeight"}))

\* C9 (amended): ifnt::write succeeds only if the sequence holds a FontName, a
\* FontHeight or a Bitmap, a CharSpacing, a LineSpacing and a CodePoint; if one
\* is absent it returns the Expected error of the first absent one, in the order
\* FontName, FontHeight, CharSpacing, LineSpacing, MaxCharNumber (the name a
\* missing CodePoint is reported under); if none is absent it returns none of
\* these errors.
C9_RequiredProps ==
    IfntWritten =>
        LET missing == FirstMissing(props, {"FontHeight", "Bitmap"}) IN
        /\ missing # "" => result = Expected(missing)
        /\ missing = "" => result \notin HeaderErrors
        /\ result = "Ok" => missing = ""

\* Witness: ifnt::write succeeded on a sequence with a Bitmap and no FontHeight.
C9_Witness ==
    /\ IfntWritten
    /\ ~HasTag(props, "FontHeight")
    /\ HasTag(props, "Bitmap")
    /\ result = "Ok"

\* The code points of the sequence, in order.
CodePoints(seq) ==
    LET cps == SelectSeq(seq, LAMBDA v : v.tag = "CodePoint") IN
    [k \in 1..Len(cps) |-> cps[k].num]

\* The lines of the sink that start with `MaxCharNumber=`.
MaxCharNumberLines ==
    SelectSeq(lines(sink), LAMBDA l : starts_with(l, "MaxCharNumber="))

\* C10: the MaxCharNumber= header line ifnt::write prints (once, as line 6) holds
\* the code point of the last CodePoint prop of the sequence.
C10_MaxCharNumberIsLast ==
    IfntWritten /\ sink # "" =>
        /\ MaxCharNumberLines =
              << "MaxCharNumber=" \o Decimal(CodePoints(props)[Len(CodePoints(props))]) >>
        /\ lines(sink)[6] = MaxCharNumberLines[1]

\* Witness: the header was printed for a sequence whose last code point is not
\* its largest.
C10_Witness ==
    /\ IfntWritten
    /\ sink # ""
    /\ \E k \in 1..Len(CodePoints(props)) :
          CodePoints(props)[k] > CodePoints(props)[Len(CodePoints(props))]
    /\ lines(sink)[6] = "MaxCharNumber=65"

\* --------------------------------------------- the round-trip specification

\* Most characters of a well-formed tfon document.
MaxChars == 2

\* The pixel rows of the glyphs of well-formed tfon documents.
GlyphRows == { <<".@", "@.">>, <<"@@@">>, <<"@", ".", "@">> }

\* A well-formed tfon document: the four header lines, then for each character
\* an empty line, its `ch:` line with the table's symbol, and its pixel rows.
RECURSIVE TfonCharLines(_)
TfonCharLines(chars) ==
    IF chars = <<>> THEN <<>>
    ELSE <<"", ChLine(Head(chars).cp, SYMBOL[Head(chars).cp + 1])>>
         \o Head(chars).glyph \o TfonCharLines(Tail(chars))

TfonDocument(name, number, cs, ls, chars) ==
    << "font_name: " \o name,
       "font_number: " \o Decimal(number),
       "char_spacing: " \o Decimal(cs),
       "line_spacing: " \o Decimal(ls) >> \o TfonCharLines(chars)

WellFormedTfon ==
    { TfonDocument(name, number, cs, ls, chars) :
        name \in {"a", "tfon example"},
        number \in {2, 255},
        cs \in {0, 1},
        ls \in {3},
        chars \in UNION { [1..n -> [cp : {52, 65}, glyph : GlyphRows]] : n \in 0..MaxChars } }

InitRound ==
    /\ overflow_checks \in BOOLEAN
    /\ bitmap = None
    /\ rows = <<>>
    /\ \E doc \in WellFormedTfon : parser = NewParser("tfon", doc)
    /\ ret = IdleReturn
    /\ props = <<>>
    /\ sink = ""
    /\ result = "pending"
    /\ reparsed = <<>>
    /\ given = [spec |-> "round", phase |-> "read"]

\* font_properties on a tfon input: one turn of the loop of collect() over the
\* tfon parser.  A Prop is pushed onto the Vec; at the first None the Vec is
\* complete.
RoundCollect ==
    /\ given.spec = "round"
    /\ given.phase = "read"
    /\ LET out == tfon_prop(parser, overflow_checks) IN
          /\ parser' = out.p
          /\ ret' = Returned(out)
          /\ props' = IF IsSome(out.ret) THEN Append(props, Unwrap(out.ret)) ELSE props
          /\ given' = IF IsSome(out.ret) THEN given
                      ELSE [given EXCEPT !.phase = IF out.panic THEN "panic" ELSE "parsed"]
    /\ UNCHANGED <<overflow_checks, bitmap, rows, sink, result, reparsed>>

\* TfonCommand::convert: tfon::write prints the collected props.  The text
\* written is then the input of a new tfon parser.
RoundWrite ==
    /\ given.spec = "round"
    /\ given.phase = "parsed"
    /\ result' = tfon_write(props).result
    /\ sink' = tfon_write(props).sink
    /\ parser' = NewParser("tfon", lines(tfon_write(props).sink))
    /\ ret' = IdleReturn
    /\ given' = [given EXCEPT !.phase = "written"]
    /\ UNCHANGED <<overflow_checks, bitmap, rows, props, reparsed>>

\* One turn of the loop of collect() over the parser of the text written.
RoundReparse ==
    /\ given.spec = "round"
    /\ given.phase = "written"
    /\ result = "Ok"
    /\ LET out == tfon_prop(parser, overflow_checks) IN
          /\ parser' = out.p
          /\ ret' = Returned(out)
          /\ reparsed' = IF IsSome(out.ret) THEN Append(reparsed, Unwrap(out.ret))
                         ELSE reparsed
          /\ given' = IF IsSome(out.ret) THEN given
                      ELSE [given EXCEPT !.phase = IF out.panic THEN "panic" ELSE "reparsed"]
    /\ UNCHANGED <<overflow_checks, bitmap, rows, props, sink, result>>

NextRound == RoundCollect \/ RoundWrite \/ RoundReparse

SpecRound == InitRound /\ [][NextRound]_vars

\* The (codepoint, bitmap) content of a prop sequence: each CodePoint's number
\* and each Bitmap's width, height and pixels, in order.
Characters(seq) ==
    LET body == SelectSeq(seq, LAMBDA v : v.tag \in {"CodePoint", "Bitmap"}) IN
    [k \in 1..Len(body) |->
        IF body[k].tag = "CodePoint" THEN <<"CodePoint", body[k].num>>
        ELSE <<"Bitmap", body[k].bm.width, body[k].bm.height, pixels(body[k].bm)>>]

\* The numbers and the characters of the two sequences agree.
SameButName(a, b) ==
    /\ find_font_number(a) = find_font_number(b)
    /\ find_char_spacing(a) = find_char_spacing(b)
    /\ find_line_spacing(a) = find_line_spacing(b)
    /\ Characters(a) = Characters(b)

\* C1: writing the props parsed from a well-formed tfon document succeeds, and
\* parsing the text written yields the same font_name, font_number,
\* char_spacing and line_spacing and the same (codepoint, bitmap) pairs.
C1_TfonRoundTrip ==
    /\ given.spec = "round" => given.phase # "panic"
    /\ given.spec = "round" /\ given.phase = "written" => result = "Ok"
    /\ given.spec = "round" /\ given.phase = "reparsed" =>
          /\ find_font_name(reparsed) = find_font_name(props)
          /\ SameButName(reparsed, props)

\* What the code keeps of C1: everything but the font name, which comes back
\* filled with spaces up to 64 columns.
RoundTripButName ==
    /\ given.spec = "round" => given.phase # "panic"
    /\ given.spec = "round" /\ given.phase = "written" => result = "Ok"
    /\ given.spec = "round" /\ given.phase = "reparsed" =>
          /\ Unwrap(find_font_name(reparsed))
                = PadRight(Unwrap(find_font_name(props)), NameColumns)
          /\ SameButName(reparsed, props)

\* ------------------------------------------ the tfon header specification

\* Most props of a sequence of the header specification.
MaxHeader == 4

\* The props the sequences of the header specification are made of: each
\* number tfon::write looks up with two values, a FontName, and a CodePoint
\* outside the symbol table (the header is written before the loop rejects it).
HeaderValues ==
    { FontName("f"), FontNumber(2), FontNumber(9), CharSpacing(1), CharSpacing(4),
      LineSpacing(3), LineSpacing(5), CodePoint(300) }

InitHeader ==
    /\ overflow_checks = FALSE
    /\ bitmap = None
    /\ rows = <<>>
    /\ parser = IdleParser
    /\ ret = IdleReturn
    /\ props \in UNION { [1..n -> HeaderValues] : n \in 0..MaxHeader }
    /\ sink = ""
    /\ result = "pending"
    /\ reparsed = <<>>
    /\ given = [spec |-> "write", fmt |-> "tfon"]

SpecHeader == InitHeader /\ [][TfonWrite]_vars

\* The number of the first prop of the variant, or the default if there is none.
FirstNum(seq, tag, default) ==
    IF HasTag(seq, tag)
    THEN seq[Min({ i \in 1..Len(seq) : seq[i].tag = tag })].num
    ELSE default

\* C11: tfon::write returns the Expected error (and writes nothing) when the
\* sequence has no FontName; otherwise its font_number, char_spacing and
\* line_spacing lines hold the value of the first FontNumber, CharSpacing and
\* LineSpacing prop, and 1, 0 and 0 when there is none.
C11_TfonHeaderDefaults ==
    TfonWritten =>
        IF HasTag(props, "FontName")
        THEN /\ Len(lines(sink)) >= 4
             /\ lines(sink)[2] = "font_number: " \o Decimal(FirstNum(props, "FontNumber", 1))
             /\ lines(sink)[3] = "char_spacing: " \o Decimal(FirstNum(props, "CharSpacing", 0))
             /\ lines(sink)[4] = "line_spacing: " \o Decimal(FirstNum(props, "LineSpacing", 0))
        ELSE /\ result = Expected("font_name")
             /\ sink = ""

\* Witness: a header written with the default font_number and the first of two
\* CharSpacing values.
C11_Witness ==
    /\ TfonWritten
    /\ HasTag(props, "FontName")
    /\ ~HasTag(props, "FontNumber")
    /\ \E i, j \in 1..Len(props) :
          /\ i < j
          /\ props[i] = CharSpacing(4)
          /\ props[j] = CharSpacing(1)
    /\ lines(sink)[2] = "font_number: 1"
    /\ lines(sink)[3] = "char_spacing: 4"

\* --------------------------------------- the tfon code point specification

\* Largest code point of the first CodePoint of a sequence (past the 256
\* entries of the symbol table).
MaxCodePoint == 257

\* The sequences of the code point specification: a FontName, a CodePoint of
\* any value up to MaxCodePoint, no, one or two Bitmaps, and a second CodePoint
\* inside or outside the symbol table.
CodePointSequences ==
    { <<FontName("f"), CodePoint(a)>> \o mid \o <<CodePoint(b)>> :
        a \in 0..MaxCodePoint,
        mid \in { <<>>, <<Bitmap(Glyph2x2)>>, <<Bitmap(Glyph2x2), Bitmap(Glyph3x1)>> },
        b \in {65, 255, 256, U16Max} }

InitCodePoint ==
    /\ overflow_checks = FALSE
    /\ bitmap = None
    /\ rows = <<>>
    /\ parser = IdleParser
    /\ ret = IdleReturn
    /\ props \in CodePointSequences
    /\ sink = ""
    /\ result = "pending"
    /\ reparsed = <<>>
    /\ given = [spec |-> "write", fmt |-> "tfon"]

SpecCodePoint == InitCodePoint /\ [][TfonWrite]_vars

\* The index of the first prop at which tfon::write returns an error: a Bitmap
\* with no CodePoint before it or a CodePoint of 256 or more (one past the end
\* if there is none).
FirstError(seq) ==
    LET errs == BadBitmaps(seq) \cup
                { i \in 1..Len(seq) : seq[i].tag = "CodePoint" /\ seq[i].num >= 256 }
    IN  IF errs = {} THEN Len(seq) + 1 ELSE Min(errs)

\* The `ch:` lines of the text written.
ChLines == SelectSeq(lines(sink), LAMBDA l : starts_with(l, "ch: "))

\* C12: given a FontName, tfon::write returns Expected("ch") when the first
\* error it reaches is a CodePoint of 256 or more, and the `ch:` lines written
\* are those of the CodePoints below 256 reached before any error, each with the
\* table's symbol of its code point.
C12_OutOfRangeCodePoint ==
    TfonWritten /\ HasTag(props, "FontName") =>
        LET stop == FirstError(props)
            reached == CodePoints(SubSeq(props, 1, stop - 1))
        IN  /\ stop <= Len(props) /\ props[stop].tag = "CodePoint" =>
                  result = Expected("ch")
            /\ stop > Len(props) => result = "Ok"
            /\ ChLines = [k \in 1..Len(reached) |->
                            "ch: " \o Decimal(reached[k]) \o " " \o SYMBOL[reached[k] + 1]]

\* Witness: `ch: 65 A` was written, then the CodePoint 256 was rejected.
C12_Witness ==
    /\ TfonWritten
    /\ props = <<FontName("f"), CodePoint(65), Bitmap(Glyph2x2), CodePoint(256)>>
    /\ result = Expected("ch")
    /\ ChLines = <<"ch: 65 A">>

\* -------------------------------------------- the conversion specification

\* A glyph is a sequence of rows of booleans, all of one width.
Glyphs ==
    { << <<FALSE, TRUE>>, <<TRUE, FALSE>> >>,
      << <<TRUE, TRUE, TRUE>>, <<FALSE, FALSE, TRUE>> >> }

\* The characters of a font: at most MaxChars (code point, glyph) pairs.
FontChars == UNION { [1..n -> [cp : {65, 255}, glyph : Glyphs]] : n \in 0..MaxChars }

\* The fonts the documents describe: a name, the two spacings, the characters.
Fonts == [name : {"n"}, cs : {1}, ls : {3}, chars : FontChars]

RECURSIVE Concat(_)
Concat(texts) == IF texts = <<>> THEN "" ELSE Head(texts) \o Concat(Tail(texts))

\* A row of pixels as text, each pixel by the text for on or off.
RowText(row, on, off) == Concat([j \in 1..Len(row) |-> IF row[j] THEN on ELSE off])

\* A well-formed ifnt document: the [FontInfo] header, then for each character
\* an empty line, its [Char_<cp>] and Character= lines and its numbered rows.
RECURSIVE IfntCharLines(_)
IfntCharLines(chars) ==
    IF chars = <<>> THEN <<>>
    ELSE LET c == Head(chars) IN
         << "", "[Char_" \o Decimal(c.cp) \o "]",
            IF c.cp >= 32 /\ c.cp < 127
            THEN "Character='" \o from_u32(c.cp) \o "'"
            ELSE "Character=0x" \o LowerHex(c.cp) >>
         \o [k \in 1..Len(c.glyph) |->
                "row" \o PadZero(k, 2) \o "=" \o RowText(c.glyph[k], " X", " .")]
         \o IfntCharLines(Tail(chars))

IfntDocument(font) ==
    << "[FontInfo]",
       "FontName=" \o font.name,
       "FontHeight=2",
       "CharSpacing=" \o Decimal(font.cs),
       "LineSpacing=" \o Decimal(font.ls),
       "MaxCharNumber=" \o
           (IF font.chars = <<>> THEN "0" ELSE Decimal(font.chars[Len(font.chars)].cp)) >>
    \o IfntCharLines(font.chars)

\* A well-formed ifntx document: the header lines, then for each character an
\* empty line, its codepoint line and its rows.
RECURSIVE IfntxCharLines(_)
IfntxCharLines(chars) ==
    IF chars = <<>> THEN <<>>
    ELSE LET c == Head(chars) IN
         << "", "codepoint: " \o Decimal(c.cp) \o " " \o SYMBOL[c.cp + 1] >>
         \o [k \in 1..Len(c.glyph) |-> RowText(c.glyph[k], "X", ".")]
         \o IfntxCharLines(Tail(chars))

IfntxDocument(font) ==
    << "name: " \o font.name,
       "height: 2",
       "char_spacing: " \o Decimal(font.cs),
       "line_spacing: " \o Decimal(font.ls) >>
    \o IfntxCharLines(font.chars)

\* A row of at most four pixels as a bdf row: one hex digit for the pixels,
\* most significant bit first, and a zero digit filling the byte.
HexRow(row) ==
    LET bits == [j \in 1..4 |-> IF j <= Len(row) /\ row[j] THEN Pow2(4 - j) ELSE 0] IN
    CharAt("0123456789ABCDEF", bits[1] + bits[2] + bits[3] + bits[4] + 1) \o "0"

\* A well-formed bdf document: the font header with its properties block, then
\* a STARTCHAR .. ENDCHAR block for each character, then ENDFONT.
RECURSIVE BdfCharLines(_)
BdfCharLines(chars) ==
    IF chars = <<>> THEN <<>>
    ELSE LET c == Head(chars)
             w == Decimal(Len(c.glyph[1]))
         IN  << "STARTCHAR U+" \o LowerHex(c.cp),
                "ENCODING " \o Decimal(c.cp),
                "SWIDTH 500 0",
                "DWIDTH " \o w \o " 0",
                "BBX " \o w \o " 2 0 0",
                "BITMAP" >>
             \o [k \in 1..Len(c.glyph) |-> HexRow(c.glyph[k])]
             \o << "ENDCHAR" >>
             \o BdfCharLines(Tail(chars))

BdfDocument(font) ==
    << "STARTFONT 2.1",
       "FONT " \o font.name,
       "SIZE 2 75 75",
       "FONTBOUNDINGBOX 3 2 0 0",
       "STARTPROPERTIES 1",
       "FONT_ASCENT 2",
       "ENDPROPERTIES",
       "CHARS " \o Decimal(Len(font.chars)) >>
    \o BdfCharLines(font.chars)
    \o << "ENDFONT" >>

\* The characters with their glyphs as tfon pixel rows.
TfonChars(chars) ==
    [i \in 1..Len(chars) |->
        [cp |-> chars[i].cp,
         glyph |-> [k \in 1..Len(chars[i].glyph) |-> RowText(chars[i].glyph[k], "@", ".")]]]

\* The well-formed document of the format that describes the font.
Document(fmt, font) ==
    CASE fmt = "bdf" -> BdfDocument(font)
      [] fmt = "ifnt" -> IfntDocument(font)
      [] fmt = "ifntx" -> IfntxDocument(font)
      [] fmt = "tfon" -> TfonDocument(font.name, 2, font.cs, font.ls, TfonChars(font.chars))

InitConvert ==
    /\ overflow_checks \in BOOLEAN
    /\ bitmap = None
    /\ rows = <<>>
    /\ \E from \in {"bdf", "ifnt", "ifntx", "tfon"}, to \in {"ifnt", "tfon"}, font \in Fonts :
          /\ parser = NewParser(from, Document(from, font))
          /\ given = [spec |-> "convert", from |-> from, to |-> to, font |-> font,
                      phase |-> "read"]
    /\ ret = IdleReturn
    /\ props = <<>>
    /\ sink = ""
    /\ result = "pending"
    /\ reparsed = <<>>

\* font_properties: one turn of the loop of collect() over the parser of the
\* input's format.  A Prop is pushed onto the Vec; at the first None the Vec is
\* complete.
ConvertCollect ==
    /\ given.spec = "convert"
    /\ given.phase = "read"
    /\ LET out == parser_next(parser, overflow_checks) IN
          /\ parser' = out.p
          /\ ret' = Returned(out)
          /\ props' = IF IsSome(out.ret) THEN Append(props, Unwrap(out.ret)) ELSE props
          /\ given' = IF IsSome(out.ret) THEN given
                      ELSE [given EXCEPT !.phase = IF out.panic THEN "panic" ELSE "parsed"]
    /\ UNCHANGED <<overflow_checks, bitmap, rows, sink, result, reparsed>>

\* IfntCommand::convert / TfonCommand::convert: the writer prints the collected
\* props.  The text written is then the input of a parser of the writer's format.
ConvertWrite ==
    /\ given.spec = "convert"
    /\ given.phase = "parsed"
    /\ LET written == IF given.to = "ifnt" THEN ifnt_write(props) ELSE tfon_write(props) IN
          /\ result' = written.result
          /\ sink' = written.sink
          /\ parser' = NewParser(given.to, lines(written.sink))
    /\ ret' = IdleReturn
    /\ given' = [given EXCEPT !.phase = "written"]
    /\ UNCHANGED <<overflow_checks, bitmap, rows, props, reparsed>>

\* One turn of the loop of collect() over the parser of the text written.
ConvertReparse ==
    /\ given.spec = "convert"
    /\ given.phase = "written"
    /\ result = "Ok"
    /\ LET out == parser_next(parser, overflow_checks) IN
          /\ parser' = out.p
          /\ ret' = Returned(out)
          /\ reparsed' = IF IsSome(out.ret) THEN Append(reparsed, Unwrap(out.ret))
                         ELSE reparsed
          /\ given' = IF IsSome(out.ret) THEN given
                      ELSE [given EXCEPT !.phase = IF out.panic THEN "panic" ELSE "reparsed"]
    /\ UNCHANGED <<overflow_checks, bitmap, rows, props, sink, result>>

NextConvert == ConvertCollect \/ ConvertWrite \/ ConvertReparse

SpecConvert == InitConvert /\ [][NextConvert]_vars

\* The (codepoint, bitmap) content of a font, in the shape of Characters: each
\* character's code point, then its glyph's width, height and row-major pixels.
FontCharacters(font) ==
    [k \in 1..(2 * Len(font.chars)) |->
        LET c == font.chars[(k + 1) \div 2] IN
        IF k % 2 = 1 THEN <<"CodePoint", c.cp>>
        ELSE <<"Bitmap", Len(c.glyph[1]), Len(c.glyph), RowMajor(c.glyph, Len(c.glyph[1]))>>]

\* A conversion from one format to another that has come to the phase.
Converted(from, to, phases) ==
    /\ given.spec = "convert"
    /\ given.from = from
    /\ given.to = to
    /\ given.phase \in phases

\* C13: for a well-formed ifnt document with code points below 256, tfon::write
\* on the props of the ifnt parser succeeds; its output has no MaxCharNumber
\* line, its `ch:` lines carry the table's symbol of each code point, and the
\* tfon parser reads from it the document's code points and bitmaps (width,
\* height, pixels), in order.
C13_IfntToTfon ==
    /\ ~Converted("ifnt", "tfon", {"panic"})
    /\ Converted("ifnt", "tfon", {"written", "reparsed"}) =>
          /\ result = "Ok"
          /\ Occurrences(sink, "MaxCharNumber") = {}
          /\ ChLines = [k \in 1..Len(given.font.chars) |->
                          ChLine(given.font.chars[k].cp, SYMBOL[given.font.chars[k].cp + 1])]
          /\ Characters(props) = FontCharacters(given.font)
    /\ Converted("ifnt", "tfon", {"reparsed"}) =>
          Characters(reparsed) = FontCharacters(given.font)

\* Witness: a font of two characters, 65 and 255, was read back from the tfon
\* text written for an ifnt document.
C13_Witness ==
    /\ Converted("ifnt", "tfon", {"reparsed"})
    /\ Len(given.font.chars) = 2
    /\ given.font.chars[1].cp = 65
    /\ given.font.chars[2].cp = 255
    /\ Len(Characters(reparsed)) = 4
    /\ HasTag(props, "MaxCharNumber")

\* Some(x) of the first sequence implies the same Some(x) of the second.
Kept(source, written) == IsSome(source) => written = source

\* C14: for each parser and each writer, writing the props parsed from a
\* well-formed document (at least one character, code points below 256)
\* succeeds, and the font read back from the text written has the name, the
\* spacings and the (codepoint, bitmap) pairs parsed from the source document.
C14_AnyParserAnyWriter ==
    given.spec = "convert" /\ given.font.chars # <<>> =>
        /\ given.phase # "panic"
        /\ given.phase \in {"written", "reparsed"} =>
              /\ result = "Ok"
              /\ Characters(props) = FontCharacters(given.font)
        /\ given.phase = "reparsed" =>
              /\ Kept(find_font_name(props), find_font_name(reparsed))
              /\ Kept(find_char_spacing(props), find_char_spacing(reparsed))
              /\ Kept(find_line_spacing(props), find_line_spacing(reparsed))
              /\ Characters(reparsed) = FontCharacters(given.font)

\* What the code keeps of C14 for the pairs other than bdf to ifnt: the write
\* succeeds and the spacings and characters come back; the name comes back
\* filled with spaces up to 64 columns.
AnyParserAnyWriterButName ==
    given.spec = "convert" /\ given.font.chars # <<>>
    /\ ~(given.from = "bdf" /\ given.to = "ifnt") =>
        /\ given.phase # "panic"
        /\ given.phase \in {"written", "reparsed"} =>
              /\ result = "Ok"
              /\ Characters(props) = FontCharacters(given.font)
        /\ given.phase = "reparsed" =>
              /\ find_font_name(reparsed) = Some(PadRight(given.font.name, NameColumns))
              /\ Kept(find_char_spacing(props), find_char_spacing(reparsed))
              /\ Kept(find_line_spacing(props), find_line_spacing(reparsed))
              /\ Characters(reparsed) = FontCharacters(given.font)

\* The bdf parser yields no CharSpacing, so ifnt::write rejects its props.
BdfToIfntRejected ==
    Converted("bdf", "ifnt", {"written"}) => result = Expected("CharSpacing")

\* ------------------------------------------- the collecting specification

\* font_properties on an input of the format fmt, one of texts: the parser of
\* the format is made over the document, nothing is collected yet.
InitCollect(fmt, texts) ==
    /\ overflow_checks \in BOOLEAN
    /\ bitmap = None
    /\ rows = <<>>
    /\ \E text \in texts : parser = NewParser(fmt, text)
    /\ ret = IdleReturn
    /\ props = <<>>
    /\ sink = ""
    /\ result = "pending"
    /\ reparsed = <<>>
    /\ given = [spec |-> "collect", phase |-> "read"]

\* font_properties: one turn of the loop of Parser::new(buf).collect(): a Prop
\* is pushed onto the Vec; at the first None the Vec is complete.
Collect ==
    /\ given.spec = "collect"
    /\ given.phase = "read"
    /\ LET out == parser_next(parser, overflow_checks) IN
          /\ parser' = out.p
          /\ ret' = Returned(out)
          /\ props' = IF IsSome(out.ret) THEN Append(props, Unwrap(out.ret)) ELSE props
          /\ given' = IF IsSome(out.ret) THEN given
                      ELSE [given EXCEPT !.phase = IF out.panic THEN "panic" ELSE "parsed"]
    /\ UNCHANGED <<overflow_checks, bitmap, rows, sink, result, reparsed>>

\* The lines of the bdf documents collected: properties, both end lines, the
\* lines of a character block.
BdfPropertyLines ==
    { "", "FONT a b", "ENCODING 65", "ENDPROPERTIES", "ENDFONT", "DWIDTH 0 0",
      "BBX 5 7 0 0", "F8", "ENDCHAR" }

\* The bdf documents collected: any lines, and the opening of a character
\* block followed by any lines.
BdfDocuments ==
    Texts(BdfPropertyLines) \cup
    { <<"DWIDTH 5 0", "BBX 5 7 0 0", "BITMAP">> \o t : t \in Texts(BdfPropertyLines) }

InitBdf == InitCollect("bdf", BdfDocuments)

SpecBdf == InitBdf /\ [][Collect]_vars

\* The first non-empty line of text after line number `after`, or 0.
FirstLine(text, after) ==
    LET rest == { i \in (after + 1)..Len(text) : text[i] # "" } IN
    IF rest = {} THEN 0 ELSE Min(rest)

\* The text of a line up to its first space.
Key(line) == IF split_once(line, " ") = None THEN line ELSE Unwrap(split_once(line, " "))[1]

\* The number of the line a call of the bdf parser takes as its property line:
\* the next non-empty line, or the one after it when that is ENDPROPERTIES.
\* 0 when there is none.
PropertyLine(p) ==
    LET i == FirstLine(p.lines, p.pos) IN
    IF i = 0 THEN 0
    ELSE IF Key(p.lines[i]) = "ENDFONT" THEN 0
    ELSE IF Key(p.lines[i]) = "ENDPROPERTIES" THEN FirstLine(p.lines, i)
    ELSE i

\* A DWIDTH line whose width token is 0.
IsDwidthZero(line) ==
    LET tok == split(line, " ") IN
    /\ tok[1] = "DWIDTH"
    /\ Len(tok) >= 2
    /\ from_str(tok[2], U8Max) = Some(0)

\* C15: a call of the bdf parser whose property line is a DWIDTH line with
\* width 0 returns end, yields no Bitmap, consumes no line after that one, and
\* the collected sequence is complete with the props yielded before it.
C15_DwidthZero ==
    [][ (/\ given.spec = "collect"
         /\ given.phase = "read"
         /\ parser.fmt = "bdf"
         /\ PropertyLine(parser) # 0
         /\ IsDwidthZero(parser.lines[PropertyLine(parser)]))
        => (/\ ret'.status = "None"
            /\ parser'.pos = PropertyLine(parser)
            /\ parser'.line = None
            /\ props' = props
            /\ given'.phase = "parsed") ]_vars

\* A CodePoint was collected, the DWIDTH 0 line ended the parsing and the BBX
\* line after it was not read.
C15_Witness ==
    /\ given.spec = "collect"
    /\ given.phase = "parsed"
    /\ parser.lines = <<"ENCODING 65", "DWIDTH 0 0", "BBX 5 7 0 0">>
    /\ parser.pos = 2
    /\ ret.status = "None"
    /\ props = <<CodePoint(65)>>

\* --------------------------------------------- the row block specification

\* The lines of the tfon and ifntx documents collected: pixel rows of widths 1,
\* 2 and 3, a property line and a line that is neither.
TfonRowLines == { "", "@", ".@", "@@", "@.@", "ch: 65 A", "junk" }
IfntxRowLines == { "", "X", ".X", "XX", "X.X", "codepoint: 65 A", "junk!" }

\* The documents collected: any lines, and a pixel row followed by any lines.
RowDocuments(lineset, row) ==
    Texts(lineset) \cup { <<row>> \o t : t \in Texts(lineset) }

InitRowBlock ==
    \/ InitCollect("tfon", RowDocuments(TfonRowLines, ".@"))
    \/ InitCollect("ifntx", RowDocuments(IfntxRowLines, ".X"))

SpecRowBlock == InitRowBlock /\ [][Collect]_vars

\* The lines a parser has before it: the line pushed back, then the non-empty
\* lines not yet handed out.
Ahead(p) ==
    (IF IsSome(p.line) THEN <<Unwrap(p.line)>> ELSE <<>>)
    \o SelectSeq(SubSeq(p.lines, p.pos + 1, Len(p.lines)), LAMBDA l : l # "")

\* The char of the format for a pixel that is on.
OnChar(fmt) == IF fmt = "tfon" THEN "@" ELSE "X"

\* A pixel row of the format: a non-empty line of `.` and the on char only.
IsRow(fmt, line) == line # "" /\ AllChars(line, "." \o OnChar(fmt))

\* The pixels of a pixel row.
RowBits(fmt, line) == [i \in 1..Len(line) |-> CharAt(line, i) = OnChar(fmt)]

\* How many of the lines a, from the first, are pixel rows of the first one's
\* width.
RunLength(fmt, a) ==
    LET other == { i \in 1..Len(a) : ~(IsRow(fmt, a[i]) /\ Len(a[i]) = Len(a[1])) } IN
    IF other = {} THEN Len(a) ELSE Min(other) - 1

\* The lines before the parser are a block of k >= 1 pixel rows of one width
\* followed by a pixel row of a different width.
WidthChangeAhead(p) ==
    LET a == Ahead(p) IN
    /\ a # <<>>
    /\ RunLength(p.fmt, a) >= 1
    /\ RunLength(p.fmt, a) < Len(a)
    /\ IsRow(p.fmt, a[RunLength(p.fmt, a) + 1])

\* The Prop is a Bitmap of the width and the pixels of the row lines rs.
IsBitmapOf(fmt, prop, rs) ==
    /\ prop.tag = "Bitmap"
    /\ prop.bm.width = Len(rs[1])
    /\ prop.bm.height = Len(rs)
    /\ pixels(prop.bm) = RowMajor([i \in 1..Len(rs) |-> RowBits(fmt, rs[i])], Len(rs[1]))

WithoutEndProperties(text) == SelectSeq(text, LAMBDA l : Key(l) # "ENDPROPERTIES")

\* C17: the props collected from a bdf document are the props collected from
\* the document without its ENDPROPERTIES lines, and no line whose key is
\* ENDFONT is yielded as a Prop, also directly after an ENDPROPERTIES line.
C17_EndPropertiesTransparent ==
    given.spec = "collect" /\ parser.fmt = "bdf" /\ given.phase = "parsed" =>
        /\ props = collect(NewParser("bdf", WithoutEndProperties(parser.lines)),
                           overflow_checks).props
        /\ \A i \in 1..Len(props) :
              ~(props[i].tag = "Unknown" /\ Key(props[i].str) = "ENDFONT")

\* An ENDFONT line is yielded as a Prop only by the call that read an
\* ENDPROPERTIES line just before it.
EndFontYieldedAfterEndProperties ==
    (/\ given.spec = "collect"
     /\ parser.fmt = "bdf"
     /\ ret.status = "Some"
     /\ ret.prop.tag = "Unknown"
     /\ Key(ret.prop.str) = "ENDFONT") =>
        \E i \in 1..(parser.pos - 1) :
           /\ Key(parser.lines[i]) = "ENDPROPERTIES"
           /\ FirstLine(parser.lines, i) = parser.pos

\* The call of the bdf parser about to be made takes a FONT line with a space
\* as its property line.
FontLineAhead ==
    /\ given.spec = "collect"
    /\ given.phase = "read"
    /\ parser.fmt = "bdf"
    /\ PropertyLine(parser) # 0
    /\ Key(parser.lines[PropertyLine(parser)]) = "FONT"
    /\ split_once(parser.lines[PropertyLine(parser)], " ") # None

\* C18: for a property line of key FONT the bdf parser yields FontName(rest),
\* rest being all of the line after its first space, further spaces included.
C18_FontNameIsRest ==
    [][ FontLineAhead =>
          /\ ret'.status = "Some"
          /\ ret'.prop =
                FontName(Unwrap(split_once(parser.lines[PropertyLine(parser)], " "))[2])
      ]_vars

\* What the parser yields for a FONT line: the text between the first space
\* and the second.
FontNameIsSecondToken ==
    [][ FontLineAhead =>
          /\ ret'.status = "Some"
          /\ ret'.prop = FontName(split(parser.lines[PropertyLine(parser)], " ")[2])
      ]_vars

\* ------------------------------------------------ the ifnt row specification

\* Most chars of the value of a row line.
MaxValueLen == 4

\* The chars of the value of a row line: the two pixel chars, the space the
\* writer prints before each pixel, and a char that is none of them.
RowChars == { ".", "X", " ", "=" }

\* The values of the length n.
RECURSIVE ValuesOfLen(_)
ValuesOfLen(n) ==
    IF n = 0 THEN {""}
    ELSE { v \o c : v \in ValuesOfLen(n - 1), c \in RowChars }

RowValues == UNION { ValuesOfLen(n) : n \in 0..MaxValueLen }

\* A character of one row line, `row01=<value>`.
InitRow ==
    InitCollect("ifnt", { <<"Character='A'", "row01=" \o v>> : v \in RowValues })

SpecRow == InitRow /\ [][Collect]_vars

\* The value of the row line of the document.
RowValue == Unwrap(split_once(parser.lines[2], "="))[2]

\* The pixels of the pixel chars of a text, the other chars left out.
PixelsOf(text) ==
    LET kept == SelectSeq([i \in 1..Len(text) |-> CharAt(text, i)],
                          LAMBDA c : c \in {".", "X"})
    IN  [i \in 1..Len(kept) |-> kept[i] = "X"]

\* The longest beginning of a text made of pixel chars only.
LeadingRun(text) ==
    LET other == { i \in 1..Len(text) : CharAt(text, i) \notin {".", "X"} } IN
    IF other = {} THEN text ELSE SubSeq(text, 1, Min(other) - 1)

\* The character of the document was read as the one row of the pixels pixs
\* (no Bitmap when there is no pixel).
RowReadAs(pixs) ==
    IF pixs = <<>> THEN props = <<>>
    ELSE /\ Len(props) = 1
         /\ props[1].tag = "Bitmap"
         /\ props[1].bm.width = Len(pixs)
         /\ props[1].bm.height = 1
         /\ pixels(props[1].bm) = pixs

\* C19, as claimed: the pixels of a row line are those of the longest beginning
\* of its value made of `.` and `X` only; a char after the first other char
\* gives no pixel.
C19_AsClaimed ==
    given.spec = "collect" /\ parser.fmt = "ifnt" /\ given.phase = "parsed" =>
        RowReadAs(PixelsOf(LeadingRun(RowValue)))

\* C19: the pixels of a row line are those of all the `.` and `X` chars of its
\* value, left to right (`.` off, `X` on); every other char is passed over and
\* the chars after it still give pixels.
C19_RowPixels ==
    given.spec = "collect" /\ parser.fmt = "ifnt" /\ given.phase = "parsed" =>
        RowReadAs(PixelsOf(RowValue))

\* The row as the writer prints it, a space before each pixel, was read as the
\* two pixels off, on.
C19_Witness ==
    /\ given.spec = "collect"
    /\ parser.fmt = "ifnt"
    /\ given.phase = "parsed"
    /\ parser.lines[2] = "row01= . X"
    /\ Len(props) = 1
    /\ pixels(props[1].bm) = <<FALSE, TRUE>>

\* ------------------------------------------- the ifnt rows specification

\* Most rows of a tall Bitmap written (a u8 height goes up to U8Max).
MaxRows == 100

\* The Bitmaps written: 1 to 3 rows, MaxRows - 1 and MaxRows rows, U8Max rows;
\* every width; all pixels off, all on, or the pattern of the byte 0xA5.
RowBitmaps ==
    { Unwrap(from_bits(h, w, [i \in 1..((h * w + 7) \div 8) |-> b])) :
        h \in {1, 2, 3, MaxRows - 1, MaxRows, U8Max}, w \in 1..MaxWidth, b \in Bytes }

\* The sequences written: the header props, a character of one of the Bitmaps
\* and at most one more character.
RowSequences ==
    { <<FontName("n"), FontHeight(7), CharSpacing(1), LineSpacing(3),
        CodePoint(65), Bitmap(b)>> \o more :
        b \in RowBitmaps, more \in { <<>>, <<CodePoint(66), Bitmap(Glyph2x2)>> } }

InitRows ==
    /\ overflow_checks = FALSE
    /\ bitmap = None
    /\ rows = <<>>
    /\ parser = IdleParser
    /\ ret = IdleReturn
    /\ props \in RowSequences
    /\ sink = ""
    /\ result = "pending"
    /\ reparsed = <<>>
    /\ given = [spec |-> "write", fmt |-> "ifnt"]

SpecRows == InitRows /\ [][IfntWrite]_vars

\* The number of a row, filled with a zero to two digits (more digits from
\* row 100 on).
RowNumber(r) == IF r < 10 THEN "0" \o Decimal(r) ELSE Decimal(r)

\* The row line of row r of a Bitmap: `row<number>=`, then ` .` or ` X` for
\* each of its width pixels.
RowLine(bm, r) ==
    "row" \o RowNumber(r) \o "="
    \o RowText([c \in 1..bm.width |-> pixels(bm)[(r - 1) * bm.width + c]], " X", " .")
    \o "\n"

\* The row lines of the rows lo..hi of a Bitmap, in order.
RECURSIVE RowLines(_, _, _)
RowLines(bm, lo, hi) ==
    IF lo > hi THEN ""
    ELSE IF lo = hi THEN RowLine(bm, lo)
    ELSE RowLines(bm, lo, (lo + hi) \div 2) \o RowLines(bm, ((lo + hi) \div 2) + 1, hi)

\* The text ifnt::write is to print for the sequence: the header, and for each
\* character its [Char] lines and the row lines 1..height of its Bitmap.
RowsText(seq) ==
    ifnt_header("n", 7, 1, 3, Unwrap(ifnt_max_char_num(seq)))
    \o Concat([i \in 1..Len(seq) |->
                  IF seq[i].tag = "CodePoint" THEN ifnt_code_point(seq[i].num)
                  ELSE IF seq[i].tag = "Bitmap"
                  THEN RowLines(seq[i].bm, 1, seq[i].bm.height)
                  ELSE ""])

\* ifnt::write has written a sequence of the row specification.
RowsWritten == given.spec = "write" /\ props \in RowSequences /\ result # "pending"

\* C20, as claimed: every Bitmap of width w and height h is written as h row
\* lines numbered from 1 in order, each of w pixels ` .` or ` X` in row-major
\* order, and every row number is of two digits.
C20_AsClaimed ==
    RowsWritten =>
        /\ result = "Ok"
        /\ sink = RowsText(props)
        /\ \A i \in Occurrences(sink, "row") : CharAt(sink, i + 5) = "="

\* C20: every Bitmap of width w and height h is written as h row lines
\* numbered from 1 in order, each of w pixels ` .` or ` X` in row-major order;
\* the row number is filled with a zero to two digits and has three digits
\* from row 100 on.
C20_RowLayout ==
    RowsWritten =>
        /\ result = "Ok"
        /\ sink = RowsText(props)
        /\ \A i \in Occurrences(sink, "row") :
              \/ CharAt(sink, i + 5) = "="
              \/ CharAt(sink, i + 6) = "=" /\ DigitsValue(SubSeq(sink, i + 3, i + 5)) >= 100

\* A Bitmap of 100 rows or more was written: its row 99 and its row 100, and
\* the second character's rows numbered from 1 again.
C20_Witness ==
    /\ RowsWritten
    /\ result = "Ok"
    /\ Len(props) = 8
    /\ props[6].bm.height >= 100
    /\ Occurrences(sink, "row99= X X\nrow100= X X\n") # {}
    /\ Occurrences(sink, "row01= X .\nrow02= . X\n") # {}

\* ------------------------------------- the repeated header specification

\* Most props put into a sequence beyond its required ones.
MaxExtra == 1

\* Sequences with every required prop once: the header props first, or the
\* FontHeight after the character.
RequiredOnce ==
    { <<FontName("f"), FontHeight(7), CharSpacing(1), LineSpacing(3), CodePoint(65)>>,
      <<FontName("f"), CharSpacing(1), LineSpacing(3), CodePoint(65), Bitmap(Glyph3x1),
        FontHeight(7)>> }

\* The props put in beyond them: a second value of each header prop, a Bitmap.
ExtraProps ==
    { FontName("g"), FontHeight(9), CharSpacing(4), LineSpacing(5), Bitmap(Glyph2x2) }

\* The sequence with x put in after its first i props.
InsertAt(seq, i, x) == SubSeq(seq, 1, i) \o <<x>> \o SubSeq(seq, i + 1, Len(seq))

\* The sequences with at most n props put in, at any place.
RECURSIVE WithExtras(_)
WithExtras(n) ==
    IF n = 0 THEN RequiredOnce
    ELSE LET fewer == WithExtras(n - 1) IN
         fewer \cup UNION { { InsertAt(s, i, x) : i \in 0..Len(s), x \in ExtraProps } :
                             s \in fewer }

\* The sequences given to the writer.
RepeatedSequences == WithExtras(MaxExtra)

InitRepeated ==
    /\ overflow_checks = FALSE
    /\ bitmap = None
    /\ rows = <<>>
    /\ parser = IdleParser
    /\ ret = IdleReturn
    /\ props \in RepeatedSequences
    /\ sink = ""
    /\ result = "pending"
    /\ reparsed = <<>>
    /\ given = [spec |-> "write", fmt |-> "ifnt"]

SpecRepeated == InitRepeated /\ [][IfntWrite]_vars

\* The first prop of the sequence whose variant is one of tags.
FirstOf(seq, tags) == seq[Min({ i \in 1..Len(seq) : seq[i].tag \in tags })]

\* The font height a prop stands for: a FontHeight's number, a Bitmap's height.
HeightOf(prop) == IF prop.tag = "Bitmap" THEN prop.bm.height ELSE prop.num

\* The header lines of the text written show the first FontName, CharSpacing
\* and LineSpacing of the sequence.
FirstNameAndSpacings ==
    /\ lines(sink)[2] = "FontName=" \o PadRight(FirstOf(props, {"FontName"}).str, NameColumns)
    /\ lines(sink)[4] = "CharSpacing=" \o Decimal(FirstOf(props, {"CharSpacing"}).num)
    /\ lines(sink)[5] = "LineSpacing=" \o Decimal(FirstOf(props, {"LineSpacing"}).num)

\* C21, as claimed: each header line of ifnt::write shows the first occurrence
\* of its prop; the FontHeight= line shows the first FontHeight prop, whatever
\* precedes it.
C21_AsClaimed ==
    IfntWritten =>
        /\ FirstNameAndSpacings
        /\ lines(sink)[3] = "FontHeight=" \o Decimal(FirstOf(props, {"FontHeight"}).num)

\* C21: each header line of ifnt::write shows the first occurrence of its
\* prop; the FontHeight= line shows the first prop that is a FontHeight or a
\* Bitmap, a Bitmap by its height.
C21_FirstOccurrence ==
    IfntWritten =>
        /\ FirstNameAndSpacings
        /\ lines(sink)[3] =
              "FontHeight=" \o Decimal(HeightOf(FirstOf(props, {"FontHeight", "Bitmap"})))

\* The text was written for a sequence with a second FontHeight before the
\* first one.
C21_Witness ==
    /\ IfntWritten
    /\ result = "Ok"
    /\ props = <<FontName("f"), FontHeight(9), FontHeight(7), CharSpacing(1),
                 LineSpacing(3), CodePoint(65)>>
    /\ lines(sink)[3] = "FontHeight=9"

\* ------------------------------------------- the line cursor specification

\* The lines of the ifnt documents read: a character line, rows of widths 2
\* and 1, a section line and a property line.
IfntRowLines ==
    { "", "Character='A'", "row01= . X", "row02= X X", "row03= .", "[Char_65]", "k=v" }

\* Any calls of next() of a parser of each format, over any lines of the format.
InitCursor ==
    /\ overflow_checks \in BOOLEAN
    /\ bitmap = None
    /\ rows = <<>>
    /\ \/ \E text \in Texts(BdfPropertyLines) : parser = NewParser("bdf", text)
       \/ \E text \in Texts(IfntRowLines) : parser = NewParser("ifnt", text)
       \/ \E text \in Texts(IfntxRowLines) : parser = NewParser("ifntx", text)
       \/ \E text \in Texts(TfonRowLines) : parser = NewParser("tfon", text)
    /\ ret = IdleReturn
    /\ props = <<>>
    /\ sink = ""
    /\ result = "pending"
    /\ reparsed = <<>>
    /\ given = [spec |-> "parse"]

SpecCursor == InitCursor /\ [][NextParse]_vars

\* The entries of a log that are of one of the kinds.
LogOf(log, kinds) == SelectSeq(log, LAMBDA e : e[1] \in kinds)

\* C22: the pushback slot holds a line only from a call of push_line to the
\* next call of next_line; push_line is called only on the line next_line has
\* just taken from the input, so never on an occupied slot; next_line takes the
\* line of the slot when there is one; the lines taken from the input are the
\* non-empty lines of the text so far, in order; so each line is observed once,
\* or twice in a row when it was pushed back.
C22_LineCursor ==
    given.spec = "parse" =>
        LET log == parser.log IN
        /\ [k \in 1..Len(LogOf(log, {"input"})) |-> LogOf(log, {"input"})[k][2]]
              = SelectSeq(SubSeq(parser.lines, 1, parser.pos), LAMBDA l : l # "")
        /\ \A i \in 1..Len(log) :
              /\ log[i][1] = "push" =>
                    /\ i > 1
                    /\ log[i - 1] = <<"input", log[i][2]>>
              /\ log[i][1] = "slot" =>
                    /\ i > 1
                    /\ log[i - 1] = <<"push", log[i][2]>>
              /\ (log[i][1] = "push" /\ i < Len(log)) => log[i + 1] = <<"slot", log[i][2]>>
        /\ IF IsSome(parser.line)
           THEN log # <<>> /\ log[Len(log)] = <<"push", Unwrap(parser.line)>>
           ELSE log = <<>> \/ log[Len(log)][1] # "push"

\* A row of another width was pushed back by the ifnt parser and taken from the
\* slot by the next call.
C22_Witness ==
    /\ given.spec = "parse"
    /\ parser.fmt = "ifnt"
    /\ parser.log = << <<"input", "Character='A'">>, <<"input", "row01= . X">>,
                       <<"input", "row03= .">>, <<"push", "row03= .">>,
                       <<"slot", "row03= .">> >>

\* ----------------------------------------------- no output on a header error

\* C23: when ifnt::write returns the Expected error of a header lookup
\* (FontName, FontHeight, CharSpacing, LineSpacing, MaxCharNumber) or tfon::write
\* that of its FontName lookup, the sink is empty; a sink that is not empty was
\* written after every lookup of the writer had found its prop.
C23_NoOutputOnHeaderError ==
    /\ IfntWritten =>
          /\ result \in HeaderErrors => sink = ""
          /\ sink # "" => FirstMissing(props, {"FontHeight", "Bitmap"}) = ""
    /\ TfonWritten =>
          /\ result = Expected("font_name") => sink = ""
          /\ sink # "" => HasTag(props, "FontName")

\* ifnt::write found a FontName and a character and no CharSpacing: it returned
\* the error and the sink is empty.
C23_Witness ==
    /\ IfntWritten
    /\ HasTag(props, "FontName")
    /\ HasTag(props, "CodePoint")
    /\ HasTag(props, "Bitmap")
    /\ result = Expected("CharSpacing")
    /\ sink = ""

\* ------------------------------------ the ifnt write-then-parse specification

\* A 1 x 3 glyph.
Glyph1x3 == Pushed(new(1), << <<TRUE>>, <<FALSE>>, <<TRUE>> >>)

\* The characters of a sequence: n (CodePoint, Bitmap) pairs.
RECURSIVE CharacterProps(_)
CharacterProps(n) ==
    IF n = 0 THEN { <<>> }
    ELSE { s \o <<CodePoint(cp), Bitmap(g)>> :
             s \in CharacterProps(n - 1), cp \in {65, 300},
             g \in {Glyph2x2, Glyph3x1, Glyph1x3} }

\* The sequences written: 1 to MaxChars characters; the header props before
\* them, after them, or the FontHeight alone after them; with or without props
\* the writer has no use for.
PairedSequences ==
    { arranged \o more :
        arranged \in UNION {
            { <<FontName("n"), FontHeight(7), CharSpacing(1), LineSpacing(3)>> \o chars,
              chars \o <<FontName("n"), FontHeight(7), CharSpacing(1), LineSpacing(3)>>,
              <<FontName("n"), CharSpacing(1), LineSpacing(3)>> \o chars \o <<FontHeight(7)>> } :
            chars \in UNION { CharacterProps(n) : n \in 1..MaxChars } },
        more \in { <<>>, <<MaxCharNumber(9), FontNumber(2)>> } }

\* ifnt::write is about to be given one of the sequences.
InitPaired ==
    /\ overflow_checks \in BOOLEAN
    /\ bitmap = None
    /\ rows = <<>>
    /\ parser = IdleParser
    /\ ret = IdleReturn
    /\ props \in PairedSequences
    /\ sink = ""
    /\ result = "pending"
    /\ reparsed = <<>>
    /\ given = [spec |-> "convert", to |-> "ifnt", phase |-> "parsed"]

NextPaired == ConvertWrite \/ ConvertReparse

SpecPaired == InitPaired /\ [][NextPaired]_vars

\* The numbers of the props of a variant, in order.
NumsOf(seq, tag) ==
    LET found == SelectSeq(seq, LAMBDA v : v.tag = tag) IN
    [k \in 1..Len(found) |-> found[k].num]

\* What the claim and its amendment share: the write succeeds, nothing panics,
\* and the text read back has the CharSpacing and LineSpacing of the sequence,
\* the last code point as its MaxCharNumber, and the characters of the sequence.
PairsReadBack ==
    /\ given.phase # "panic"
    /\ given.phase \in {"written", "reparsed"} => result = "Ok"
    /\ given.phase = "reparsed" =>
          /\ NumsOf(reparsed, "CharSpacing") = <<FirstOf(props, {"CharSpacing"}).num>>
          /\ NumsOf(reparsed, "LineSpacing") = <<FirstOf(props, {"LineSpacing"}).num>>
          /\ NumsOf(reparsed, "MaxCharNumber") =
                <<CodePoints(props)[Len(CodePoints(props))]>>
          /\ Characters(reparsed) = Characters(props)

\* C24, as claimed: the text ifnt::write prints for a sequence of header props
\* and (CodePoint, Bitmap) pairs is read back by the ifnt parser with the
\* FontHeight, CharSpacing and LineSpacing of the sequence, the last code point
\* as MaxCharNumber and the same pairs.
C24_AsClaimed ==
    given.spec = "convert" =>
        /\ PairsReadBack
        /\ given.phase = "reparsed" =>
              NumsOf(reparsed, "FontHeight") = <<FirstOf(props, {"FontHeight"}).num>>

\* C24: the same, but the FontHeight read back is that of the first prop of
\* the sequence that is a FontHeight or a Bitmap, a Bitmap by its height.
C24_IfntRoundTrip ==
    given.spec = "convert" =>
        /\ PairsReadBack
        /\ given.phase = "reparsed" =>
              NumsOf(reparsed, "FontHeight") =
                 <<HeightOf(FirstOf(props, {"FontHeight", "Bitmap"}))>>

\* Two characters of the same width, code points 300 and 65, were read back
\* from the text written for a sequence whose header props come last.
C24_Witness ==
    /\ given.spec = "convert"
    /\ given.phase = "reparsed"
    /\ props = <<CodePoint(300), Bitmap(Glyph2x2), CodePoint(65), Bitmap(Glyph2x2),
                 FontName("n"), FontHeight(7), CharSpacing(1), LineSpacing(3)>>
    /\ NumsOf(reparsed, "FontHeight") = <<2>>
    /\ NumsOf(reparsed, "MaxCharNumber") = <<65>>
    /\ Len(Characters(reparsed)) = 4

\* ------------------------------------------------- the Bitmaps the parsers yield

\* The call of next() that has returned yielded a Bitmap.
BitmapYielded == ret.status = "Some" /\ ret.prop.tag = "Bitmap"

\* C25: every Bitmap a parser yields has a width of 1 or more, a height of 1
\* or more, and width * height pixels.
C25_ParsedBitmapsNonEmpty ==
    BitmapYielded =>
        /\ ret.prop.bm.width >= 1
        /\ ret.prop.bm.height >= 1
        /\ Len(pixels(ret.prop.bm)) = ret.prop.bm.width * ret.prop.bm.height

\* What holds of the Bitmaps yielded from these documents: width * height
\* pixels and a width of 1 or more from every parser, a height of 1 or more
\* from the ifnt, ifntx and tfon parsers.
ParsedBitmapsButBdfHeight ==
    BitmapYielded =>
        /\ ret.prop.bm.width >= 1
        /\ parser.fmt # "bdf" => ret.prop.bm.height >= 1
        /\ Len(pixels(ret.prop.bm)) = ret.prop.bm.width * ret.prop.bm.height

====
